---- MODULE Spec2Model ----
(***************************************************************************)
(* Model of the off-grid solar sizing page (src/src/pages/Professional.tsx, *)
(* second component, lines 443-1369): the form state, its persistence in    *)
(* localStorage, the memoised sizing computation `calculations` and the     *)
(* handlers of the page.                                                    *)
(*                                                                          *)
(* Numbers.  A JavaScript number is modelled as an exact rational           *)
(* [n |-> numerator, d |-> denominator], d > 0, in lowest terms; NaN is the *)
(* value with d = 0.  The inputs of the model are decimal strings whose     *)
(* values are integers or halves, on which the IEEE-754 double arithmetic   *)
(* of the page (products, sums, one division, * 1.2, * 1.25) gives the same *)
(* ceilings, roundings and comparisons as exact arithmetic.  Binary         *)
(* rounding on other decimal fractions (4.1, 0.1, ...) is not modelled.     *)
(*                                                                          *)
(* Strings.  A JavaScript string is a sequence of one-character strings,    *)
(* so that parseFloat is modelled by what it does on the characters.        *)
(***************************************************************************)
EXTENDS Integers, Sequences, FiniteSets, TLC

(***************************************************************************)
(* Rational arithmetic (the number operations the page uses)                *)
(***************************************************************************)
Abs(k) == IF k < 0 THEN -k ELSE k

RECURSIVE Gcd(_, _)
Gcd(a, b) == IF b = 0 THEN a ELSE Gcd(b, a % b)

\* the rational p/q (q # 0) in lowest terms with a positive denominator
Rat(p, q) ==
    LET g == Gcd(Abs(p), Abs(q))
        s == IF q < 0 THEN -1 ELSE 1
    IN  [n |-> (s * p) \div g, d |-> (s * q) \div g]

Num(k) == [n |-> k, d |-> 1]

NaN == [n |-> 0, d |-> 0]

IsNaN(x) == x.d = 0

\* JavaScript truthiness of a number: NaN, +0 and -0 are falsy
Falsy(x) == IsNaN(x) \/ x.n = 0

\* -x (NaN stays NaN)
Neg(x) == [n |-> -x.n, d |-> x.d]

Add(x, y) == Rat(x.n * y.d + y.n * x.d, x.d * y.d)

Mul(x, y) == Rat(x.n * y.n, x.d * y.d)

\* x / y for y # 0 (the page divides only by values its guard found truthy)
Div(x, y) == Rat(x.n * y.d, x.d * y.n)

Eq(x, y) == x.n * y.d = y.n * x.d

Leq(x, y) == x.n * y.d <= y.n * x.d

Lt(x, y) == x.n * y.d < y.n * x.d

Geq(x, y) == Leq(y, x)

IsInteger(x) == x.d = 1

\* Math.ceil
MathCeil(x) == Num(-((-x.n) \div x.d))

\* Math.round: the integer nearest to x, halves rounded towards +infinity
MathRound(x) == Num((2 * x.n + x.d) \div (2 * x.d))

\* Math.max of two numbers
MathMax(x, y) == IF Leq(x, y) THEN y ELSE x

(***************************************************************************)
(* Strings and parseFloat                                                   *)
(***************************************************************************)
Digits == {"0", "1", "2", "3", "4", "5", "6", "7", "8", "9"}

DigitVal ==
    "0" :> 0 @@ "1" :> 1 @@ "2" :> 2 @@ "3" :> 3 @@ "4" :> 4 @@
    "5" :> 5 @@ "6" :> 6 @@ "7" :> 7 @@ "8" :> 8 @@ "9" :> 9

\* the characters the modelled strings are made of (no exponent letter, so
\* that a decimal literal is sign, digits, point, digits)
Chars == Digits \cup {"-", "+", ".", " ", "a", "b", "c"}

\* index of the first character of s at or after i that is not in set, or Len(s)+1
RECURSIVE SkipWhile(_, _, _)
SkipWhile(s, i, set) ==
    IF i <= Len(s) /\ s[i] \in set THEN SkipWhile(s, i + 1, set) ELSE i

\* value of the digit string s[i..j-1] read as a natural number
RECURSIVE DigitsValue(_, _, _)
DigitsValue(s, i, j) ==
    IF j <= i THEN 0 ELSE 10 * DigitsValue(s, i, j - 1) + DigitVal[s[j - 1]]

RECURSIVE Pow10(_)
Pow10(k) == IF k = 0 THEN 1 ELSE 10 * Pow10(k - 1)

\* the value of the literal with integer digits s[i0..i1-1] and fraction
\* digits s[f0..f1-1]; NaN when it has no digit at all
decimalValue(s, i0, i1, f0, f1) ==
    IF i1 = i0 /\ f1 = f0 THEN NaN
    ELSE Add(Num(DigitsValue(s, i0, i1)),
             Rat(DigitsValue(s, f0, f1), Pow10(f1 - f0)))

\* the integer digits end before i1: an optional point and fraction follow
parseFraction(s, i0, i1) ==
    IF i1 <= Len(s) /\ s[i1] = "."
    THEN decimalValue(s, i0, i1, i1 + 1, SkipWhile(s, i1 + 1, Digits))
    ELSE decimalValue(s, i0, i1, i1, i1)

\* an unsigned literal starting at i0
parseUnsigned(s, i0) == parseFraction(s, i0, SkipWhile(s, i0, Digits))

\* an optional sign at `start`, then the unsigned literal
parseSigned(s, start) ==
    IF start <= Len(s) /\ s[start] = "-" THEN Neg(parseUnsigned(s, start + 1))
    ELSE IF start <= Len(s) /\ s[start] = "+" THEN parseUnsigned(s, start + 1)
    ELSE parseUnsigned(s, start)

\* parseFloat(string): skips leading white space, then reads the longest
\* prefix that is a decimal literal [+-] digits [. digits] or [+-] . digits;
\* NaN when there is none.  What follows the literal is ignored.
parseFloat(s) == parseSigned(s, SkipWhile(s, 1, {" "}))

(***************************************************************************)
(* Standard component tables and the two lookups                            *)
(***************************************************************************)
STANDARD_MCB_SIZES ==
    <<Num(6), Num(10), Num(16), Num(20), Num(25), Num(32), Num(40), Num(50),
      Num(63), Num(80), Num(100), Num(125), Num(160)>>

\* <<cross-section (mm2), current capacity (A)>>
CABLE_CURRENT_RATINGS ==
    << <<Rat(3, 2), Num(15)>>, <<Rat(5, 2), Num(21)>>, <<Num(4), Num(28)>>,
       <<Num(6), Num(36)>>, <<Num(10), Num(50)>>, <<Num(16), Num(68)>>,
       <<Num(25), Num(89)>>, <<Num(35), Num(110)>>, <<Num(50), Num(133)>>,
       <<Num(70), Num(171)>>, <<Num(95), Num(207)>> >>

\* the result of a look-up that may find nothing: <<v>> for the value v,
\* undefined (the empty sequence) for nothing
undefined == <<>>

\* Array.prototype.find: the first element on which the callback returns
\* true, undefined if none; hits are the indices where it returns true
find(arr, hits) ==
    IF hits = {} THEN undefined
    ELSE <<arr[CHOOSE i \in hits : \A j \in hits : i <= j]>>

\* nextMcbSize with the comparison s > rated
nextMcbSizeStrict(current) ==
    LET rated == Mul(current, Rat(5, 4))
        Above(s) == Lt(rated, s)
        found == find(STANDARD_MCB_SIZES, {i \in DOMAIN STANDARD_MCB_SIZES : Above(STANDARD_MCB_SIZES[i])})
    IN  IF found = undefined THEN STANDARD_MCB_SIZES[Len(STANDARD_MCB_SIZES)]
        ELSE found[1]

\* nextMcbSize falling back to the first entry instead of the last
nextMcbSizeFirst(current) ==
    LET rated == Mul(current, Rat(5, 4))
        AtLeast(s) == Geq(s, rated)
        found == find(STANDARD_MCB_SIZES, {i \in DOMAIN STANDARD_MCB_SIZES : AtLeast(STANDARD_MCB_SIZES[i])})
    IN  IF found = undefined THEN STANDARD_MCB_SIZES[1]
        ELSE found[1]

\* find(s => s >= rated) || last entry
nextMcbSize(current) ==
    LET rated == Mul(current, Rat(5, 4))
        AtLeast(s) == Geq(s, rated)
        found == find(STANDARD_MCB_SIZES, {i \in DOMAIN STANDARD_MCB_SIZES : AtLeast(STANDARD_MCB_SIZES[i])})
    IN  IF found = undefined \/ Falsy(found[1])
        THEN STANDARD_MCB_SIZES[Len(STANDARD_MCB_SIZES)]
        ELSE found[1]

\* cableSizeForCurrent falling back to the first entry instead of the last
cableSizeForCurrentFirst(current) ==
    LET needed == Mul(current, Rat(5, 4))
        Carries(e) == Geq(e[2], needed)
        match == find(CABLE_CURRENT_RATINGS, {i \in DOMAIN CABLE_CURRENT_RATINGS : Carries(CABLE_CURRENT_RATINGS[i])})
    IN  IF match = undefined THEN CABLE_CURRENT_RATINGS[1][1]
        ELSE match[1][1]

\* cableSizeForCurrent without the 25% margin
cableSizeForCurrentNoMargin(current) ==
    LET Carries(e) == Geq(e[2], current)
        match == find(CABLE_CURRENT_RATINGS, {i \in DOMAIN CABLE_CURRENT_RATINGS : Carries(CABLE_CURRENT_RATINGS[i])})
    IN  IF match = undefined
        THEN CABLE_CURRENT_RATINGS[Len(CABLE_CURRENT_RATINGS)][1]
        ELSE match[1][1]

\* match ? match[0] : last entry's cross-section
cableSizeForCurrent(current) ==
    LET needed == Mul(current, Rat(5, 4))
        Carries(e) == Geq(e[2], needed)
        match == find(CABLE_CURRENT_RATINGS, {i \in DOMAIN CABLE_CURRENT_RATINGS : Carries(CABLE_CURRENT_RATINGS[i])})
    IN  IF match = undefined
        THEN CABLE_CURRENT_RATINGS[Len(CABLE_CURRENT_RATINGS)][1]
        ELSE match[1][1]

(***************************************************************************)
(* The page state (ProfessionalState), the memoised Result and storage      *)
(***************************************************************************)
VARIABLES
    state,            \* the twelve useState values, as the ProfessionalState
                      \* object the persist effect builds from them (lines 580-593)
    calculations,     \* the value held by useMemo: a CalculationResults or null
    localStorage,     \* what localStorage holds under STORAGE_KEY
    printWindow,      \* the report handed to the print window by the last step, or null
    shareText,        \* the report handed to navigator.share / the clipboard by the last step, or null
    observed,         \* observer: an earlier rendering, kept to compare with later ones, or null
    invocation,       \* the notification function: the request it is handling, the
                      \* environment, its call to the email API, the answer of
                      \* the email API and its Response
    equipment         \* CustomEquipmentInput: its three useState values, the
                      \* customEquipment prop, Date.now(), and the calls it made
                      \* to onAdd and onUpdateQuantity

vars == <<state, calculations, localStorage, printWindow, shareText, observed, invocation, equipment>>

null == [isNull |-> TRUE]

\* the notification function is handling no request
idle ==
    [pc |-> "idle", req |-> null, env |-> null, fetch |-> null, calls |-> 0,
     res |-> null, response |-> null]

\* CustomEquipmentInput as it mounts (lines 29-31): both fields empty, the
\* form closed, no custom equipment, nothing called
initialEquipment ==
    [name |-> <<>>, wattage |-> <<>>, showForm |-> FALSE, customEquipment |-> <<>>,
     now |-> 0, onAdd |-> <<>>, onUpdateQuantity |-> null]

ConnectionType == {"series", "parallel", "series-parallel"}

\* Math.floor
MathFloor(x) == Num(x.n \div x.d)

\* parallelStrings rounded down
parallelStringsFloor(bLoad, backup, sysVolt, batVolt, batAh) ==
    MathFloor(Div(Mul(bLoad, backup),
                  Mul(Mul(batVolt, batAh), Div(sysVolt, batVolt))))

\* parallelStrings with the backup energy derated by a depth of discharge of 0.8
parallelStringsDerated(bLoad, backup, sysVolt, batVolt, batAh) ==
    MathCeil(Div(Div(Mul(bLoad, backup), Rat(4, 5)),
                 Mul(Mul(batVolt, batAh), Div(sysVolt, batVolt))))

\* lines 612-619: the number of parallel battery strings
parallelStrings(bLoad, backup, sysVolt, batVolt, batAh) ==
    LET energyNeeded == Mul(bLoad, backup)
        dod == Num(1)
        usableEnergy == Div(energyNeeded, dod)
        batteriesInSeries == Div(sysVolt, batVolt)
        batteryBankWh == Mul(batVolt, batAh)
    IN  MathCeil(Div(usableEnergy, Mul(batteryBankWh, batteriesInSeries)))

\* lines 617, 620: batteriesInSeries * parallelStrings
minBatteries(sysVolt, batVolt, strings) == Mul(Div(sysVolt, batVolt), strings)

\* panelsNeeded rounded to the nearest integer
panelsNeededRounded(sLoad, bLoad, backup, sunHours, pnlWatt) ==
    MathRound(Div(Mul(Add(Mul(sLoad, sunHours), Mul(bLoad, backup)), Rat(6, 5)),
                  Mul(pnlWatt, sunHours)))

\* panelsNeeded without the 20% overhead
panelsNeededNoOverhead(sLoad, bLoad, backup, sunHours, pnlWatt) ==
    MathCeil(Div(Add(Mul(sLoad, sunHours), Mul(bLoad, backup)),
                 Mul(pnlWatt, sunHours)))

\* lines 622-626: the number of panels
panelsNeeded(sLoad, bLoad, backup, sunHours, pnlWatt) ==
    LET dailySolarConsumption == Mul(sLoad, sunHours)
        dailyBackupEnergy == Mul(bLoad, backup)
        totalDailyEnergy ==
            Mul(Add(dailySolarConsumption, dailyBackupEnergy), Rat(6, 5))
    IN  MathCeil(Div(totalDailyEnergy, Mul(pnlWatt, sunHours)))

\* lines 628-638
panelArrayVoltage(connection, pnlVolt, panels) ==
    IF connection = "series" THEN Mul(pnlVolt, panels)
    ELSE IF connection = "parallel" THEN pnlVolt
    ELSE Mul(pnlVolt, Num(2))

\* recommendedChargeController rounded to the nearest 10 A step
recommendedChargeControllerRounded(pnlWatt, panels, sysVolt) ==
    Mul(MathRound(Div(Mul(Div(Mul(pnlWatt, panels), sysVolt), Rat(5, 4)), Num(10))),
        Num(10))

\* lines 642-644: 25% margin, then the next 10 A step
recommendedChargeController(pnlWatt, panels, sysVolt) ==
    LET maxCurrent == Div(Mul(pnlWatt, panels), sysVolt)
    IN  Mul(MathCeil(Div(Mul(maxCurrent, Rat(5, 4)), Num(10))), Num(10))

\* arrayVoc with the series-parallel half rounded down
arrayVocHalfFloor(connection, pnlVolt, panels) ==
    IF connection = "series" THEN Mul(Mul(pnlVolt, Rat(6, 5)), panels)
    ELSE IF connection = "series-parallel"
    THEN Mul(Mul(pnlVolt, Rat(6, 5)), MathFloor(Div(panels, Num(2))))
    ELSE Mul(pnlVolt, Rat(6, 5))

\* lines 665-667: Voc = Vmp * 1.2 times the panels in series
arrayVoc(connection, pnlVolt, panels) ==
    IF connection = "series" THEN Mul(Mul(pnlVolt, Rat(6, 5)), panels)
    ELSE IF connection = "series-parallel"
    THEN Mul(Mul(pnlVolt, Rat(6, 5)), MathCeil(Div(panels, Num(2))))
    ELSE Mul(pnlVolt, Rat(6, 5))

\* Math.ceil(arrayVoc / 100) * 100 (lines 668, 674)
vocClass(voc) == Mul(MathCeil(Div(voc, Num(100))), Num(100))

\* protection with the controller-to-battery breaker and cable sized from the
\* AC current
protectionCCFromAc(dcLoadCurrent, acLoadCurrent, voc) ==
    [dcMcbPanelToCC |-> nextMcbSize(dcLoadCurrent),
     dcMcbCCToBattery |-> nextMcbSize(acLoadCurrent),
     acMcbInverterToLoad |-> nextMcbSize(acLoadCurrent),
     dcBreakerBatteryToInverter |-> nextMcbSize(dcLoadCurrent),
     spdRating |-> [type |-> "Type 2 DC SPD", volts |-> vocClass(voc)],
     earthWire |-> Num(16),
     isolatorSwitch |->
        [volts |-> vocClass(voc), amps |-> nextMcbSize(dcLoadCurrent)],
     cablePanelToCC |-> cableSizeForCurrent(dcLoadCurrent),
     cableCCToBattery |-> cableSizeForCurrent(acLoadCurrent),
     cableBatteryToInverter |-> cableSizeForCurrent(dcLoadCurrent),
     cableInverterToLoad |-> cableSizeForCurrent(acLoadCurrent)]

\* lines 646-680 and 691-703: the ProtectionSizing object
protection(dcLoadCurrent, acLoadCurrent, voc) ==
    [dcMcbPanelToCC |-> nextMcbSize(dcLoadCurrent),
     dcMcbCCToBattery |-> nextMcbSize(dcLoadCurrent),
     acMcbInverterToLoad |-> nextMcbSize(acLoadCurrent),
     dcBreakerBatteryToInverter |-> nextMcbSize(dcLoadCurrent),
     \* `Type 2 DC SPD, ${volts}V rated`
     spdRating |-> [type |-> "Type 2 DC SPD", volts |-> vocClass(voc)],
     earthWire |-> Num(16),
     \* `DC Isolator ${volts}V / ${amps}A`
     isolatorSwitch |->
        [volts |-> vocClass(voc), amps |-> nextMcbSize(dcLoadCurrent)],
     cablePanelToCC |-> cableSizeForCurrent(dcLoadCurrent),
     cableCCToBattery |-> cableSizeForCurrent(dcLoadCurrent),
     cableBatteryToInverter |-> cableSizeForCurrent(dcLoadCurrent),
     cableInverterToLoad |-> cableSizeForCurrent(acLoadCurrent)]

\* lines 682-704: the CalculationResults object
results(sysVolt, batVolt, batAh, sunHours, pnlWatt, pnlVolt, connection, maxLoad, strings, panels) ==
    [minBatteries |-> MathCeil(minBatteries(sysVolt, batVolt, strings)),
     batteryBankVoltage |-> sysVolt,
     batteryBankAh |-> Mul(batAh, strings),
     totalPanels |-> panels,
     panelArrayVoltage |-> MathRound(panelArrayVoltage(connection, pnlVolt, panels)),
     panelArrayWattage |-> Mul(pnlWatt, panels),
     dailyEnergyProduction |-> MathRound(Mul(Mul(pnlWatt, panels), sunHours)),
     recommendedChargeController |->
        recommendedChargeController(pnlWatt, panels, sysVolt),
     protection |->
        protection(Div(maxLoad, sysVolt), Div(maxLoad, Num(230)),
                   arrayVoc(connection, pnlVolt, panels))]

\* lines 608-610: the guard of the computation
incomplete(sLoad, bLoad, sysVolt, backup, batVolt, batAh, sunHours, pnlWatt, pnlVolt) ==
    \/ Falsy(sLoad) \/ Falsy(bLoad) \/ Falsy(sysVolt) \/ Falsy(backup)
    \/ Falsy(batVolt) \/ Falsy(batAh) \/ Falsy(sunHours)
    \/ Falsy(pnlWatt) \/ Falsy(pnlVolt)

\* the computation on the parsed values
sizing(sLoad, bLoad, sysVolt, backup, batVolt, batAh, sunHours, pnlWatt, pnlVolt, connection) ==
    IF incomplete(sLoad, bLoad, sysVolt, backup, batVolt, batAh, sunHours,
                  pnlWatt, pnlVolt)
    THEN null
    ELSE results(sysVolt, batVolt, batAh, sunHours, pnlWatt, pnlVolt, connection,
                 MathMax(sLoad, bLoad),
                 parallelStrings(bLoad, backup, sysVolt, batVolt, batAh),
                 panelsNeeded(sLoad, bLoad, backup, sunHours, pnlWatt))

\* a useMemo callback that doubles the capacity of a parallel battery bank
useMemoCalculationsByBank(st) ==
    sizing(parseFloat(st.solarLoad), parseFloat(st.backupLoad),
           parseFloat(st.systemVoltage), parseFloat(st.backupHours),
           parseFloat(st.batteryVoltage),
           IF st.batteryConnection = "parallel"
           THEN Mul(parseFloat(st.batteryAh), Num(2)) ELSE parseFloat(st.batteryAh),
           parseFloat(st.solarHours), parseFloat(st.panelWattage),
           parseFloat(st.panelVoltage), st.panelConnection)

\* the useMemo callback (lines 597-705) on the field values st
useMemoCalculations(st) ==
    sizing(parseFloat(st.solarLoad), parseFloat(st.backupLoad),
           parseFloat(st.systemVoltage), parseFloat(st.backupHours),
           parseFloat(st.batteryVoltage), parseFloat(st.batteryAh),
           parseFloat(st.solarHours), parseFloat(st.panelWattage),
           parseFloat(st.panelVoltage), st.panelConnection)

(***************************************************************************)
(* Persistence: loadPersistedState, saveState and the persist effect        *)
(***************************************************************************)
\* localStorage under STORAGE_KEY: no entry, a text that is not JSON, or the
\* JSON text of an object (modelled by the object it parses to)
absent == [kind |-> "absent"]

notJson == [kind |-> "text"]

Json(obj) == [kind |-> "json", value |-> obj]

\* a localStorage every access to which throws
blocked == [kind |-> "blocked"]

\* saveState (lines 547-553): JSON.stringify followed by localStorage.setItem
\* on the storage `storage`; a setItem that throws is caught and ignored
saveState(st, storage) == IF storage = blocked THEN storage ELSE Json(st)

\* localStorage.removeItem(STORAGE_KEY) (line 726), which throws on a blocked
\* storage and leaves it as it is
removeItem(storage) == IF storage = blocked THEN storage ELSE absent

\* obj.key is truthy: the object has the key and its value is not ''
Truthy(obj, key) == key \in DOMAIN obj /\ obj[key] # <<>>

\* loadPersistedState copying loadSize into solarLoad only
loadPersistedStateSolarOnly(stored) ==
    IF stored.kind # "json" THEN null
    ELSE
    LET parsed == stored.value
    IN  IF Truthy(parsed, "loadSize") /\ ~Truthy(parsed, "solarLoad")
        THEN [k \in (DOMAIN parsed \cup {"solarLoad"}) \ {"loadSize"} |->
                IF k = "solarLoad" THEN parsed["loadSize"] ELSE parsed[k]]
        ELSE parsed

\* loadPersistedState(): null when there is no entry or JSON.parse throws; an
\* old record with loadSize and no solarLoad gets both loads from loadSize
loadPersistedState(stored) ==
    IF stored.kind # "json" THEN null
    ELSE
    LET parsed == stored.value
    IN  IF Truthy(parsed, "loadSize") /\ ~Truthy(parsed, "solarLoad")
        THEN [k \in (DOMAIN parsed \cup {"solarLoad", "backupLoad"}) \ {"loadSize"} |->
                IF k \in {"solarLoad", "backupLoad"} THEN parsed["loadSize"]
                ELSE parsed[k]]
        ELSE parsed

\* the useState initialisers of the first render (lines 560-576):
\* persistedState?.key || default
initialState(persistedState) ==
    LET Has(key) == persistedState # null /\ key \in DOMAIN persistedState
        P(key, dflt) == IF Has(key) /\ Truthy(persistedState, key)
                        THEN persistedState[key] ELSE dflt
    IN  [solarLoad |-> P("solarLoad", <<>>),
         backupLoad |-> P("backupLoad", <<>>),
         systemVoltage |-> P("systemVoltage", <<"2", "4">>),
         backupHours |-> P("backupHours", <<"4">>),
         batteryVoltage |-> P("batteryVoltage", <<"1", "2">>),
         batteryAh |-> P("batteryAh", <<"2", "0", "0">>),
         batteryConnection |->
            IF Has("batteryConnection") THEN persistedState.batteryConnection
            ELSE "series",
         solarHours |-> P("solarHours", <<"5">>),
         panelWattage |-> P("panelWattage", <<"4", "5", "0">>),
         panelVoltage |-> P("panelVoltage", <<"4", "0">>),
         panelConnection |->
            IF Has("panelConnection") THEN persistedState.panelConnection
            ELSE "series",
         showResults |->
            IF Has("showResults") THEN persistedState.showResults ELSE FALSE]

\* the values handleReset sets (lines 714-725)
resetState == initialState(null)

\* a dependency list of the useMemo that leaves out panelConnection
calculationsDepsWithoutConnection ==
    {"solarLoad", "backupLoad", "systemVoltage", "backupHours", "batteryVoltage",
     "batteryAh", "batteryConnection", "solarHours", "panelWattage",
     "panelVoltage"}

\* a dependency list of the useMemo that leaves out solarHours
calculationsDepsWithoutSolarHours ==
    {"solarLoad", "backupLoad", "systemVoltage", "backupHours", "batteryVoltage",
     "batteryAh", "batteryConnection", "panelWattage", "panelVoltage",
     "panelConnection"}

\* the dependency list of the useMemo (line 705)
calculationsDeps ==
    {"solarLoad", "backupLoad", "systemVoltage", "backupHours", "batteryVoltage",
     "batteryAh", "batteryConnection", "solarHours", "panelWattage",
     "panelVoltage", "panelConnection"}

\* the dependency list of the persist effect (line 595)
persistDeps == calculationsDeps \cup {"showResults"}

Changed(deps, old, new) == \E k \in deps : old[k] # new[k]

\* a state update followed by the re-render it causes: useMemo recomputes when
\* one of its dependencies changed, and the persist effect saves the new state
\* when one of its dependencies changed.  `storage` is what localStorage holds
\* when the handler returns.
Render(st, storage) ==
    /\ state' = st
    /\ calculations' = IF Changed(calculationsDeps, state, st)
                       THEN useMemoCalculations(st) ELSE calculations
    /\ localStorage' = IF Changed(persistDeps, state, st)
                       THEN saveState(st, storage) ELSE storage

\* the report handleDownload writes into the print window: the raw field
\* values and the Result, interpolated as they are (lines 800-863)
htmlContent ==
    [config |-> [k \in calculationsDeps |-> state[k]], results |-> calculations]

\* the text handleShare builds (lines 900-921): panelVoltage, the surge device,
\* the earth wire, the isolator and the cables are not part of it
shareTextOf ==
    [config |-> [k \in calculationsDeps \ {"panelVoltage"} |-> state[k]],
     results |->
        [minBatteries |-> calculations.minBatteries,
         batteryBankVoltage |-> calculations.batteryBankVoltage,
         batteryBankAh |-> calculations.batteryBankAh,
         totalPanels |-> calculations.totalPanels,
         panelArrayWattage |-> calculations.panelArrayWattage,
         dailyEnergyProduction |-> calculations.dailyEnergyProduction,
         recommendedChargeController |-> calculations.recommendedChargeController,
         dcMcbPanelToCC |-> calculations.protection.dcMcbPanelToCC,
         dcMcbCCToBattery |-> calculations.protection.dcMcbCCToBattery,
         dcBreakerBatteryToInverter |->
            calculations.protection.dcBreakerBatteryToInverter,
         acMcbInverterToLoad |-> calculations.protection.acMcbInverterToLoad]]

(***************************************************************************)
(* The page: first render, field edits and the four buttons                 *)
(***************************************************************************)
\* The first render of the page with `stored` in localStorage takes the state
\* from the persisted record, computes the useMemo and runs the persist effect.

\* the page is opened with one of `stores` in localStorage
InitFrom(stores) ==
    \E stored \in stores :
        /\ state = initialState(loadPersistedState(stored))
        /\ calculations = useMemoCalculations(state)
        /\ localStorage = saveState(state, stored)
        /\ printWindow = null
        /\ shareText = null
        /\ observed = null
        /\ invocation = idle
        /\ equipment = initialEquipment

\* the page is reloaded: a first render with what localStorage holds
Reload ==
    /\ state' = initialState(loadPersistedState(localStorage))
    /\ calculations' = useMemoCalculations(state')
    /\ localStorage' = saveState(state', localStorage)
    /\ printWindow' = null
    /\ shareText' = null
    /\ UNCHANGED <<observed, invocation, equipment>>

\* an onChange that also hides the results
SetFieldHiding(key, v) ==
    /\ Render([state EXCEPT ![key] = v, !.showResults = FALSE], localStorage)
    /\ printWindow' = null
    /\ shareText' = null
    /\ UNCHANGED <<observed, invocation, equipment>>

\* onChange / onValueChange of the field `key` with the value v
SetField(key, v) ==
    /\ Render([state EXCEPT ![key] = v], localStorage)
    /\ printWindow' = null
    /\ shareText' = null
    /\ UNCHANGED <<observed, invocation, equipment>>

\* handleCalculate without its test of calculations
handleCalculateUnguarded ==
    /\ Render([state EXCEPT !.showResults = TRUE], localStorage)
    /\ printWindow' = null
    /\ shareText' = null
    /\ UNCHANGED <<observed, invocation, equipment>>

handleCalculate ==
    /\ IF calculations # null
       THEN Render([state EXCEPT !.showResults = TRUE], localStorage)
       ELSE UNCHANGED <<state, calculations, localStorage>>
    /\ printWindow' = null
    /\ shareText' = null
    /\ UNCHANGED <<observed, invocation, equipment>>

\* the setters, then localStorage.removeItem, then the re-render; when
\* removeItem throws, the updates the setters queued are rendered all the same
handleReset ==
    /\ Render(resetState, removeItem(localStorage))
    /\ printWindow' = null
    /\ shareText' = null
    /\ UNCHANGED <<observed, invocation, equipment>>

handleDownload ==
    /\ printWindow' = IF calculations = null THEN null ELSE htmlContent
    /\ shareText' = null
    /\ UNCHANGED <<state, calculations, localStorage, observed, invocation, equipment>>

\* handleShare hiding the results when the text could not be handed over
handleShareHiding(hasShare, shareOutcome, copyOk) ==
    /\ shareText' =
          IF calculations = null THEN null
          ELSE LET copies == ~hasShare \/ shareOutcome = "error"
               IN  [text |-> shareTextOf,
                    shared |-> hasShare,
                    copied |-> copies,
                    toast |-> IF ~copies THEN "none"
                              ELSE IF copyOk THEN "success" ELSE "error"]
    /\ printWindow' = null
    /\ IF calculations # null /\ (~hasShare \/ shareOutcome = "error") /\ ~copyOk
       THEN Render([state EXCEPT !.showResults = FALSE], localStorage)
       ELSE UNCHANGED <<state, calculations, localStorage>>
    /\ UNCHANGED <<observed, invocation, equipment>>

\* hasShare: navigator.share exists; shareOutcome: how navigator.share ends;
\* copyOk: whether navigator.clipboard.writeText succeeds
handleShare(hasShare, shareOutcome, copyOk) ==
    /\ shareText' =
          IF calculations = null THEN null
          ELSE LET copies == ~hasShare \/ shareOutcome = "error"
               IN  [text |-> shareTextOf,
                    shared |-> hasShare,
                    copied |-> copies,
                    toast |-> IF ~copies THEN "none"
                              ELSE IF copyOk THEN "success" ELSE "error"]
    /\ printWindow' = null
    /\ UNCHANGED <<state, calculations, localStorage, observed, invocation, equipment>>

(***************************************************************************)
(* The notification function: send-contact-notification/index.ts            *)
(***************************************************************************)
\* JSON values as JSON.parse yields them: a string (its characters), a number,
\* a boolean, null, an array (its elements) or an object (a record of its
\* keys); a key an object does not have is undefined
JString(chars) == [t |-> "string", s |-> chars]

JNumber(x) == [t |-> "number", num |-> x]

JBoolean(bool) == [t |-> "boolean", b |-> bool]

JNull == [t |-> "null"]

JArray(elements) == [t |-> "array", elems |-> elements]

JObject(rec) == [t |-> "object", obj |-> rec]

JUndefined == [t |-> "undefined"]

\* obj[key] of an object value
Get(val, key) == IF key \in DOMAIN val.obj THEN val.obj[key] ELSE JUndefined

\* String.prototype.replace(/ch/g, entity), on the two halves of the string
RECURSIVE replace(_, _, _)
replace(str, ch, entity) ==
    IF Len(str) = 0 THEN <<>>
    ELSE IF Len(str) = 1 THEN (IF str[1] = ch THEN entity ELSE str)
    ELSE replace(SubSeq(str, 1, Len(str) \div 2), ch, entity)
         \o replace(SubSeq(str, (Len(str) \div 2) + 1, Len(str)), ch, entity)

\* escapeHtml (lines 11-19) on a string; null, undefined and '' give ''
escapeHtml(unsafe) ==
    replace(replace(replace(replace(replace(unsafe,
        "&", <<"&", "a", "m", "p", ";">>),
        "<", <<"&", "l", "t", ";">>),
        ">", <<"&", "g", "t", ";">>),
        "\"", <<"&", "q", "u", "o", "t", ";">>),
        "'", <<"&", "#", "0", "3", "9", ";">>)

WhiteSpace == {" ", "\n", "\t"}

\* String.prototype.trim, as z.string().trim() applies it
trim(str) ==
    LET inked == {i \in DOMAIN str : str[i] \notin WhiteSpace}
    IN  IF inked = {} THEN <<>>
        ELSE SubSeq(str, CHOOSE i \in inked : \A j \in inked : i <= j,
                         CHOOSE i \in inked : \A j \in inked : j <= i)

IsString(val) == val.t = "string"

\* z.number(), then .min(lo): a number >= lo
NumberMin(val, lo) == val.t = "number" /\ Geq(val.num, Num(lo))

\* z.number().min(lo).max(hi)
NumberIn(val, lo, hi) == NumberMin(val, lo) /\ Leq(val.num, Num(hi))

\* schema.optional(): undefined, or a value the schema accepts
Optional(val, accepts) == val.t = "undefined" \/ accepts

\* z.boolean().optional()
OptionalBoolean(val) == Optional(val, val.t = "boolean")

\* z.string().max(limit)
StringMax(val, limit) == IsString(val) /\ Len(val.s) <= limit

\* z.array(z.string().max(500)).optional()
OptionalTexts(val) ==
    Optional(val, val.t = "array" /\ \A i \in DOMAIN val.elems : StringMax(val.elems[i], 500))

Letters ==
    {"a", "b", "c", "d", "e", "f", "g", "h", "i", "j", "k", "l", "m", "n", "o",
     "p", "q", "r", "s", "t", "u", "v", "w", "x", "y", "z",
     "A", "B", "C", "D", "E", "F", "G", "H", "I", "J", "K", "L", "M", "N", "O",
     "P", "Q", "R", "S", "T", "U", "V", "W", "X", "Y", "Z"}

AlphaNumeric == Letters \cup Digits

\* the domain after the @ of an address: labels that start with a letter or
\* digit and go on with letters, digits and hyphens, each followed by a dot,
\* then two or more letters
isEmailDomain(dom) ==
    LET dots == {i \in DOMAIN dom : dom[i] = "."}
        last == CHOOSE i \in dots : \A j \in dots : j <= i
    IN  /\ dots # {}
        /\ dom[1] \in AlphaNumeric
        /\ \A i \in 1..last : dom[i] \in AlphaNumeric \cup {"-", "."}
        /\ \A i \in dots : i < last => dom[i + 1] \in AlphaNumeric
        /\ Len(dom) - last >= 2
        /\ \A i \in (last + 1)..Len(dom) : dom[i] \in Letters

\* z.string().email(): the pattern of the validation library,
\* local part of letters, digits and _ + - . that neither starts nor ends
\* with a dot, no two dots in a row anywhere, an @, then the domain
isEmail(str) ==
    LET ats == {i \in DOMAIN str : str[i] = "@"}
        at == CHOOSE i \in ats : TRUE
    IN  /\ Cardinality(ats) = 1
        /\ at > 1
        /\ at < Len(str)
        /\ \A i \in 1..(at - 1) : str[i] \in AlphaNumeric \cup {"_", "+", "-", "."}
        /\ str[1] # "."
        /\ str[at - 1] # "."
        /\ \A i \in 1..(Len(str) - 1) : ~(str[i] = "." /\ str[i + 1] = ".")
        /\ isEmailDomain(SubSeq(str, at + 1, Len(str)))

\* ApplianceSchema (lines 22-28)
ApplianceSchema(val) ==
    /\ val.t = "object"
    /\ StringMax(Get(val, "name"), 200)
    /\ NumberIn(Get(val, "wattage"), 0, 100000)
    /\ NumberIn(Get(val, "quantity"), 0, 100)
    /\ IsInteger(Get(val, "quantity").num)
    /\ OptionalBoolean(Get(val, "isHeavyDuty"))
    /\ OptionalBoolean(Get(val, "soloOnly"))

\* CalculationsSchema (lines 30-37)
CalculationsSchema(val) ==
    /\ val.t = "object"
    /\ Optional(Get(val, "totalLoad"), NumberMin(Get(val, "totalLoad"), 0))
    /\ Optional(Get(val, "peakSurge"), NumberMin(Get(val, "peakSurge"), 0))
    /\ Optional(Get(val, "requiredKva"), NumberMin(Get(val, "requiredKva"), 0))
    /\ Optional(Get(val, "recommendedInverter"),
                NumberMin(Get(val, "recommendedInverter"), 0))
    /\ OptionalTexts(Get(val, "warnings"))
    /\ OptionalTexts(Get(val, "recommendations"))

\* z.array(ApplianceSchema).max(100).optional()
OptionalAppliances(val) ==
    Optional(val, /\ val.t = "array"
                  /\ Len(val.elems) <= 100
                  /\ \A i \in DOMAIN val.elems : ApplianceSchema(val.elems[i]))

\* InverterSizingSchema (lines 39-44): null, or an object of optional parts
InverterSizingSchema(val) ==
    \/ val.t = "null"
    \/ /\ val.t = "object"
       /\ OptionalAppliances(Get(val, "appliances"))
       /\ Optional(Get(val, "calculations"),
                   CalculationsSchema(Get(val, "calculations")))
       /\ Optional(Get(val, "totalWattage"), NumberMin(Get(val, "totalWattage"), 0))
       /\ Optional(Get(val, "recommendedInverterSize"),
                   NumberMin(Get(val, "recommendedInverterSize"), 0))

\* z.string().max(limit).nullable().or(z.literal(""))
NullableStringMax(val, limit) == val.t = "null" \/ StringMax(val, limit)

\* TrimmedLength without the trim
TrimmedLengthUntrimmed(val, lo, hi) ==
    IsString(val) /\ Len(val.s) >= lo /\ Len(val.s) <= hi

\* z.string().trim().min(lo).max(hi)
TrimmedLength(val, lo, hi) ==
    IsString(val) /\ Len(trim(val.s)) >= lo /\ Len(trim(val.s)) <= hi

whatsapp == <<"w", "h", "a", "t", "s", "a", "p", "p">>

email == <<"e", "m", "a", "i", "l">>

\* ContactNotificationSchema (lines 46-54): safeParse(val).success
ContactNotificationSchema(val) ==
    /\ val.t = "object"
    /\ TrimmedLength(Get(val, "name"), 1, 100)
    /\ \/ Get(val, "email").t = "null"
       \/ /\ IsString(Get(val, "email"))
          /\ \/ Get(val, "email").s = <<>>
             \/ isEmail(Get(val, "email").s) /\ Len(Get(val, "email").s) <= 255
    /\ NullableStringMax(Get(val, "phone"), 30)
    /\ NullableStringMax(Get(val, "location"), 200)
    /\ TrimmedLength(Get(val, "message"), 10, 2000)
    /\ IsString(Get(val, "contactMethod"))
    /\ Get(val, "contactMethod").s \in {whatsapp, email}
    /\ InverterSizingSchema(Get(val, "inverterSizing"))

\* safeParse(val).data of an accepted payload: name and message trimmed, the
\* keys the schema does not name stripped
parseResultData(val) ==
    [name |-> trim(Get(val, "name").s),
     email |-> Get(val, "email"),
     phone |-> Get(val, "phone"),
     location |-> Get(val, "location"),
     message |-> trim(Get(val, "message").s),
     contactMethod |-> Get(val, "contactMethod").s,
     inverterSizing |-> Get(val, "inverterSizing")]

\* a ?? b
Coalesce(a, b) == IF a.t \in {"undefined", "null"} THEN b ELSE a

\* the rows of the appliance table with the appliance names interpolated
\* without escapeHtml
applianceRowsRaw(appliances) ==
    [i \in DOMAIN appliances |->
        [name |-> Get(appliances[i], "name").s,
         wattage |-> Get(appliances[i], "wattage").num,
         quantity |-> Get(appliances[i], "quantity").num,
         subtotal |-> Mul(Get(appliances[i], "wattage").num,
                          Get(appliances[i], "quantity").num)]]

\* lines 93-100: one table row for each appliance
applianceRows(appliances) ==
    [i \in DOMAIN appliances |->
        [name |-> escapeHtml(Get(appliances[i], "name").s),
         wattage |-> Get(appliances[i], "wattage").num,
         quantity |-> Get(appliances[i], "quantity").num,
         subtotal |-> Mul(Get(appliances[i], "wattage").num,
                          Get(appliances[i], "quantity").num)]]

\* generatePDFReport (lines 82-190): what the template interpolates
generatePDFReport(inverterSizing, contactName) ==
    LET appliances == Coalesce(Get(inverterSizing, "appliances"), JArray(<<>>)).elems
        calcs == Coalesce(Get(inverterSizing, "calculations"), JObject(<<>>))
        warnings == Coalesce(Get(calcs, "warnings"), JArray(<<>>)).elems
        recommendations == Coalesce(Get(calcs, "recommendations"), JArray(<<>>)).elems
    IN  [contactName |-> escapeHtml(contactName),
         totalLoad |-> Coalesce(Get(calcs, "totalLoad"),
                                Coalesce(Get(inverterSizing, "totalWattage"), JNumber(Num(0)))).num,
         peakSurge |-> Coalesce(Get(calcs, "peakSurge"), JNumber(Num(0))).num,
         requiredKva |-> Coalesce(Get(calcs, "requiredKva"), JNumber(Num(0))).num,
         recommendedInverter |->
            Coalesce(Get(calcs, "recommendedInverter"),
                     Coalesce(Get(inverterSizing, "recommendedInverterSize"),
                              JNumber(Num(0)))).num,
         applianceRows |-> applianceRows(appliances),
         warnings |-> [i \in DOMAIN warnings |-> escapeHtml(warnings[i].s)],
         recommendations |->
            [i \in DOMAIN recommendations |-> escapeHtml(recommendations[i].s)]]

\* the text shown for a contact field that is null or ''
notProvided == [markup |-> "Not provided"]

\* the notice shown in place of the report
noSizingNotice == [markup |-> "No inverter sizing data available for this submission."]

\* lines 255-263: data.field ? escapeHtml(data.field) : 'Not provided'
contactField(val) ==
    IF val.t = "string" /\ val.s # <<>> THEN [text |-> escapeHtml(val.s)]
    ELSE notProvided

\* lines 229-231: the report, or '' (no report) when inverterSizing is null
pdfReport(data) ==
    IF data.inverterSizing.t = "object"
    THEN <<generatePDFReport(data.inverterSizing, data.name)>>
    ELSE <<>>

\* lines 233-293: what the template of the email interpolates
emailHtml(data) ==
    [name |-> escapeHtml(data.name),
     email |-> contactField(data.email),
     phone |-> contactField(data.phone),
     location |-> contactField(data.location),
     contactMethod |-> IF data.contactMethod = whatsapp THEN "WhatsApp" ELSE "Email",
     message |-> escapeHtml(data.message),
     sizing |-> IF pdfReport(data) # <<>> THEN pdfReport(data)[1] ELSE noSizingNotice]

\* line 304: data.inverterSizing?.calculations?.recommendedInverter ?? 'N/A'
subjectKva(data) ==
    IF data.inverterSizing.t # "object" THEN JString(<<"N", "/", "A">>)
    ELSE IF Get(data.inverterSizing, "calculations").t # "object"
    THEN JString(<<"N", "/", "A">>)
    ELSE Coalesce(Get(Get(data.inverterSizing, "calculations"), "recommendedInverter"),
                  JString(<<"N", "/", "A">>))

\* lines 295-307: the call to the email API
fetchCall(key, data) ==
    [url |-> "https://api.resend.com/emails",
     Authorization |-> key,
     to |-> "samueldavid4star@gmail.com",
     subject |-> [name |-> escapeHtml(data.name), kva |-> subjectKva(data)],
     html |-> emailHtml(data)]

\* corsHeaders (lines 4-8)
corsHeaders ==
    ("Access-Control-Allow-Origin" :> "*")
    @@ ("Access-Control-Allow-Headers" :> "authorization, x-client-info, apikey, content-type")

\* new Response(JSON.stringify(body), {status, headers: {"Content-Type":
\* "application/json", ...corsHeaders}})
Response(status, body) ==
    [status |-> status, body |-> body,
     headers |-> ("Content-Type" :> "application/json") @@ corsHeaders]

\* new Response(null, {headers: corsHeaders}) (line 194): status 200, no body
preflight == [status |-> 200, body |-> null, headers |-> corsHeaders]

\* the handler (lines 192-307) from the arrival of req up to its Response or
\* its call to the email API; env is the environment of the function
handler(req, env) ==
    /\ invocation.pc = "idle"
    /\ invocation' =
         IF req.method = "OPTIONS"
         THEN [pc |-> "responded", req |-> req, env |-> env, fetch |-> null, calls |-> 0, res |-> null,
               response |-> preflight]
         ELSE IF env.RESEND_API_KEY.t = "undefined" \/ env.RESEND_API_KEY.s = <<>>
         THEN [pc |-> "responded", req |-> req, env |-> env, fetch |-> null, calls |-> 0, res |-> null,
               response |-> Response(500, [error |-> "RESEND_API_KEY is not configured"])]
         ELSE IF ~req.body.json
         THEN [pc |-> "responded", req |-> req, env |-> env, fetch |-> null, calls |-> 0, res |-> null,
               response |-> Response(400, [error |-> "Invalid JSON payload"])]
         ELSE IF ~ContactNotificationSchema(req.body.value)
         THEN [pc |-> "responded", req |-> req, env |-> env, fetch |-> null, calls |-> 0, res |-> null,
               response |-> Response(400, [error |-> "Invalid request data"])]
         ELSE [pc |-> "fetch", req |-> req, env |-> env,
               fetch |-> fetchCall(env.RESEND_API_KEY.s,
                                   parseResultData(req.body.value)),
               calls |-> invocation.calls + 1, res |-> null, response |-> null]
    /\ UNCHANGED <<state, calculations, localStorage, printWindow, shareText, observed, equipment>>

\* the handler without its outer catch: a call that rejects, or a body that
\* is not JSON, ends the invocation without a Response
fetchSettlesUncaught(res) ==
    /\ invocation.pc = "fetch"
    /\ invocation' =
         [invocation EXCEPT
            !.pc = "responded",
            !.res = res,
            !.response =
               IF res.rejected \/ res.body = "not JSON" THEN null
               ELSE IF ~res.ok THEN Response(500, [error |-> "Failed to send email"])
               ELSE Response(200, [emailResponse |-> res.body])]
    /\ UNCHANGED <<state, calculations, localStorage, printWindow, shareText, observed, equipment>>

\* the handler answering 200 whatever the email API answered
fetchSettlesAlwaysOk(res) ==
    /\ invocation.pc = "fetch"
    /\ invocation' = [invocation EXCEPT !.pc = "responded", !.res = res,
                                        !.response = Response(200, res)]
    /\ UNCHANGED <<state, calculations, localStorage, printWindow, shareText, observed, equipment>>

\* the handler (lines 309-333) from the outcome res of the call: the call
\* rejected, or a response with its ok flag and a body that is not JSON, is
\* null, or is an object with or without a message
fetchSettles(res) ==
    /\ invocation.pc = "fetch"
    /\ invocation' =
         [invocation EXCEPT
            !.pc = "responded",
            !.res = res,
            !.response =
               IF res.rejected THEN Response(500, [error |-> "fetch failed"])
               ELSE IF res.body = "not JSON"
               THEN Response(500, [error |-> "Unexpected token"])
               ELSE IF ~res.ok /\ res.body = "null"
               THEN Response(500, [error |-> "Cannot read properties of null"])
               ELSE IF ~res.ok /\ res.body = "message"
               THEN Response(500, [error |-> "message of the email API"])
               ELSE IF ~res.ok
               THEN Response(500, [error |-> "Failed to send email"])
               ELSE Response(200, [emailResponse |-> res.body])]
    /\ UNCHANGED <<state, calculations, localStorage, printWindow, shareText, observed, equipment>>

(***************************************************************************)
(* Inputs of the model                                                      *)
(***************************************************************************)
DigitChar == <<"0", "1", "2", "3", "4", "5", "6", "7", "8", "9">>

\* the decimal string of the natural number k
RECURSIVE Str(_)
Str(k) == IF k < 10 THEN <<DigitChar[k + 1]>>
          ELSE Append(Str(k \div 10), DigitChar[(k % 10) + 1])

\* what is chosen in the voltage selects (two of the three SelectItem values
\* of each) and in the connection selects
SystemVoltageItems == {<<"1", "2">>, <<"2", "4">>}

BatteryVoltageItems == {<<"1", "2">>, <<"2", "4">>}

BatteryConnectionItems == {"series", "parallel"}

\* what is typed into the number inputs
SolarLoadTyped == {<<>>, <<"2", "0", "0", "0">>, <<"-", "5">>}

BackupLoadTyped == {<<>>, <<"1", "5", "0", "0">>}

BackupHoursTyped == {<<"4">>, <<"0", ".", "0">>}

BatteryAhTyped == {<<"2", "0", "0">>, <<"-", "1", "0", "0">>}

SolarHoursTyped == {<<"5">>, <<>>}

PanelWattageTyped == {<<"4", "5", "0">>, <<"-", "0">>}

PanelVoltageTyped == {<<"4", "0">>, <<"3", "7", ".", "5">>}

\* records found in localStorage when the page is opened: none, a text that
\* is not JSON, a record saved with the results shown and a load cleared, a
\* record of the older page with a single loadSize, a record whose system
\* voltage is not a number
StoredOnOpen ==
    {absent, notJson,
     Json([resetState EXCEPT !.backupLoad = <<"1", "5", "0", "0">>,
                             !.showResults = TRUE]),
     Json([loadSize |-> <<"2", "0", "0", "0">>, systemVoltage |-> <<"1", "2">>]),
     Json([resetState EXCEPT !.solarLoad = <<"2", "0", "0", "0">>,
                             !.backupLoad = <<"1", "5", "0", "0">>,
                             !.systemVoltage = <<"a", "b", "c">>,
                             !.showResults = TRUE])}

Init == InitFrom(StoredOnOpen)

\* the values each field can be given through its input or select
Editable ==
    [solarLoad |-> SolarLoadTyped, backupLoad |-> BackupLoadTyped,
     systemVoltage |-> SystemVoltageItems, backupHours |-> BackupHoursTyped,
     batteryVoltage |-> BatteryVoltageItems, batteryAh |-> BatteryAhTyped,
     batteryConnection |-> BatteryConnectionItems, solarHours |-> SolarHoursTyped,
     panelWattage |-> PanelWattageTyped, panelVoltage |-> PanelVoltageTyped,
     panelConnection |-> ConnectionType]

Edit == \E key \in DOMAIN Editable : \E v \in Editable[key] : SetField(key, v)

\* how the share API and the clipboard behave: <<navigator.share exists, how
\* navigator.share ends, navigator.clipboard.writeText succeeds>>
ShareEnvironments ==
    {<<TRUE, "ok", TRUE>>, <<TRUE, "abort", TRUE>>, <<TRUE, "error", TRUE>>,
     <<TRUE, "error", FALSE>>, <<FALSE, "ok", TRUE>>, <<FALSE, "ok", FALSE>>}

Share == \E env \in ShareEnvironments : handleShare(env[1], env[2], env[3])

Next ==
    \/ Edit
    \/ handleCalculate
    \/ handleReset
    \/ handleDownload
    \/ Share
    \/ Reload

Spec == Init /\ [][Next]_vars

(***************************************************************************)
(* The sizing computation on a range of stored configurations: the page is  *)
(* opened with a complete configuration in localStorage and reloaded        *)
(***************************************************************************)
MaxLoadSteps == 5

\* loads of 480 W, 960 W, ...: at 12 V every step is 40 A, which margins to
\* exactly 50 A, a breaker size and a cable rating
LoadsStored == {Str(480 * k) : k \in 1..MaxLoadSteps}

ConfigurationsStored ==
    {Json([solarLoad |-> sl, backupLoad |-> bl, systemVoltage |-> sv,
           backupHours |-> bh, batteryVoltage |-> bv, batteryAh |-> ah,
           batteryConnection |-> "series", solarHours |-> sh,
           panelWattage |-> pw, panelVoltage |-> pv, panelConnection |-> pc,
           showResults |-> FALSE]) :
        sl \in LoadsStored, bl \in LoadsStored,
        sv \in {<<"1", "2">>, <<"2", "4">>, <<"4", "8">>},
        bh \in {<<"4">>, <<"2", ".", "5">>},
        bv \in {<<"6">>, <<"1", "2">>, <<"2", "4">>},
        ah \in {<<"2", "0", "0">>, <<"1", "0", "0", ".", "5">>},
        sh \in {<<"5">>, <<"4", ".", "5">>},
        pw \in {<<"4", "5", "0">>, <<"3", "0", "0">>},
        pv \in {<<"4", "0">>, <<"3", "7", ".", "5">>},
        pc \in ConnectionType}

\* the scenario of the specification (2000 W / 1500 W on the defaults), a
\* demand of (700 * 5 + 1000 * 4) * 1.2 = 9000 Wh, exactly four 450 W panels,
\* and eleven 335 W panels over 4.5 sun hours: 1507.5 Wh a day for each panel
ScenariosStored ==
    {Json([resetState EXCEPT !.solarLoad = <<"2", "0", "0", "0">>,
                             !.backupLoad = <<"1", "5", "0", "0">>]),
     Json([resetState EXCEPT !.solarLoad = <<"7", "0", "0">>,
                             !.backupLoad = <<"1", "0", "0", "0">>]),
     Json([resetState EXCEPT !.solarLoad = <<"2", "0", "0", "0">>,
                             !.backupLoad = <<"1", "0", "0", "0">>,
                             !.solarHours = <<"4", ".", "5">>,
                             !.panelWattage = <<"3", "3", "5">>]),
     Json([resetState EXCEPT !.solarLoad = <<"1", "0", "0">>,
                             !.backupLoad = <<"1", "0", "0">>,
                             !.panelVoltage = <<"6", "0">>,
                             !.panelConnection = "series-parallel"])}

InitCalc == InitFrom(ConfigurationsStored \cup ScenariosStored)

NextCalc == Reload

SpecCalc == InitCalc /\ [][NextCalc]_vars

(***************************************************************************)
(* The page with an observer that keeps one earlier rendering               *)
(***************************************************************************)
\* the observer notes the field values, showResults and the Result rendered
Observe ==
    /\ observed' = [state |-> state, calculations |-> calculations]
    /\ UNCHANGED <<state, calculations, localStorage, printWindow, shareText, invocation, equipment>>

\* the edits of the observed runs
EditableObserved ==
    [solarLoad |-> {<<>>, <<"2", "0", "0", "0">>},
     backupLoad |-> {<<>>, <<"1", "5", "0", "0">>},
     panelConnection |-> ConnectionType]

EditObserved ==
    \E key \in DOMAIN EditableObserved :
        \E v \in EditableObserved[key] : SetField(key, v)

NextObserved ==
    \/ EditObserved
    \/ handleCalculate
    \/ handleReset
    \/ Reload
    \/ Observe

SpecObserved == Init /\ [][NextObserved]_vars

(***************************************************************************)
(* The page with an observer, the loads and the system voltage edited       *)
(***************************************************************************)
\* loads whose currents run from under the smallest breaker to over the
\* largest breaker and cable
EditableLookup ==
    [solarLoad |-> {Str(100), Str(480), Str(1000), Str(2000), Str(2400), Str(5000)},
     backupLoad |-> {Str(100), Str(960), Str(1500), Str(2000), Str(3000), Str(5000)},
     systemVoltage |-> {Str(12), Str(24), Str(48)}]

EditLookup ==
    \E key \in DOMAIN EditableLookup :
        \E v \in EditableLookup[key] : SetField(key, v)

NextLookup ==
    \/ EditLookup
    \/ Observe

SpecLookup == InitFrom({absent}) /\ [][NextLookup]_vars

(***************************************************************************)
(* The page opened on a record of the older or of the current schema, with  *)
(* an observer that keeps the record found and the state loaded from it     *)
(***************************************************************************)
\* a record of the older schema: one loadSize in place of the two loads
LegacyRecord(loadSize, shown) ==
    [k \in (DOMAIN resetState \ {"solarLoad", "backupLoad"}) \cup {"loadSize"} |->
        IF k = "loadSize" THEN loadSize
        ELSE IF k = "showResults" THEN shown ELSE resetState[k]]

LoadsTyped == {<<>>, <<"2", "0", "0", "0">>, <<"1", "5", "0", "0">>}

\* records of the older schema (with a load, with the load cleared, and one
\* holding two keys only) and records of the current schema
StoredMigration ==
    {Json(LegacyRecord(ls, sh)) : ls \in LoadsTyped, sh \in BOOLEAN}
    \cup {Json([loadSize |-> <<"2", "0", "0", "0">>, systemVoltage |-> <<"1", "2">>])}
    \cup {Json([resetState EXCEPT !.solarLoad = sl, !.backupLoad = bl]) :
            sl \in LoadsTyped, bl \in LoadsTyped}

InitMigration ==
    \E stored \in StoredMigration :
        /\ state = initialState(loadPersistedState(stored))
        /\ calculations = useMemoCalculations(state)
        /\ localStorage = saveState(state, stored)
        /\ printWindow = null
        /\ shareText = null
        /\ observed = [stored |-> stored.value, loaded |-> state]
        /\ invocation = idle
        /\ equipment = initialEquipment

NextMigration ==
    \/ EditObserved
    \/ handleCalculate
    \/ handleReset
    \/ Reload

SpecMigration == InitMigration /\ [][NextMigration]_vars

(***************************************************************************)
(* The notification function serving one request after another              *)
(***************************************************************************)
\* the string of n characters ch
Repeat(ch, n) == [i \in 1..n |-> ch]

\* the longest name, message, phone number and location the schema accepts
\* are of 100, 2000, 30 and 200 characters, and the longest appliance list
\* is of 100 appliances; the samples below are built around these lengths

\* a payload the schema accepts
BasePayload ==
    [name |-> JString(<<"A", "d", "a">>),
     email |-> JString(<<"a", "d", "a", "@", "e", "x", "a", "m", "p", "l", "e", ".", "c", "o", "m">>),
     phone |-> JNull,
     location |-> JString(<<>>),
     message |-> JString(<<"h", "e", "l", "l", "o", " ", "w", "o", "r", "l", "d">>),
     contactMethod |-> JString(email),
     inverterSizing |-> JNull]

\* the payload with one key changed, and with one key left out
With(key, val) == JObject([BasePayload EXCEPT ![key] = val])

Without(key) == JObject([k \in DOMAIN BasePayload \ {key} |-> BasePayload[k]])

NamesSent ==
    {JString(<<>>), JString(<<" ", "\n">>), JString(<<"A">>),
     JString(Repeat("a", 100)), JString(Repeat("a", 101)),
     JString(<<" ">> \o Repeat("a", 100) \o <<"\n">>),
     JString(<<"<", "b", ">", "O", "'", "N", "e", "i", "l", " ", "&", " ", "\"", "C", "o", "\"", "<", "/", "b", ">">>), JNull, JNumber(Num(5))}

MessagesSent ==
    {JString(Repeat("m", 9)), JString(Repeat("m", 10)),
     JString(<<" ">> \o Repeat("m", 9)),
     JString(Repeat("m", 2000)), JString(Repeat("m", 2001)),
     JString(<<" ">> \o Repeat("m", 2000) \o <<" ">>),
     JString(<<"<", "s", "c", "r", "i", "p", "t", ">", "a", "l", "e", "r", "t", "(", "'", "x", "'", ")", "<", "/", "s", "c", "r", "i", "p", "t", ">", " ", "&", " ", "\"", "y", "\"">>)}

ContactMethodsSent == {JString(whatsapp), JString(<<"s", "m", "s">>), JNull}

EmailsSent ==
    {JString(<<>>), JNull, JString(<<"a", "@", "b">>),
     JString(<<"a", ".", ".", "b", "@", "x", ".", "i", "o">>),
     JString(Repeat("a", 250) \o <<"@", "x", ".", "i", "o">>),
     JString(Repeat("a", 251) \o <<"@", "x", ".", "i", "o">>)}

PhonesSent ==
    {JString(Repeat("1", 30)), JString(Repeat("1", 31)),
     JString(<<"+", "2", "3", "4", " ", "'", "<", "5", ">">>), JBoolean(TRUE)}

\* every string of at most two of these characters
EscapedChars == {"&", "<", ">", "\"", "'", "a"}

LocationsSent ==
    {JString(<<c>>) : c \in EscapedChars}
    \cup {JString(<<c, d>>) : c \in EscapedChars, d \in EscapedChars}
    \cup {JString(<<"&", "l", "t", ";">>), JString(Repeat("x", 200)), JString(Repeat("x", 201))}

Appliance(name, wattage, quantity) ==
    JObject([name |-> JString(name), wattage |-> JNumber(wattage),
             quantity |-> JNumber(quantity)])

Fridge == Appliance(<<"F", "r", "i", "d", "g", "e">>, Num(150), Num(2))

Television == Appliance(<<"<", "T", "V", ">", " ", "4", "0", "\"">>, Rat(1201, 2), Num(1))

AppliancesSent ==
    {<<Fridge>>,
     <<Fridge, Television>>,
     Repeat(Fridge, 100), Repeat(Fridge, 101),
     <<Appliance(<<"a">>, Num(100000), Num(100))>>,
     <<Appliance(<<"a">>, Num(100001), Num(1))>>,
     <<Appliance(<<"a">>, Num(-1), Num(1))>>,
     <<Appliance(<<"a">>, Num(10), Num(101))>>,
     <<Appliance(<<"a">>, Num(10), Num(-1))>>,
     <<Appliance(<<"a">>, Num(10), Rat(3, 2))>>,
     <<Appliance(Repeat("n", 201), Num(10), Num(1))>>,
     <<JObject([name |-> JString(<<"a">>), wattage |-> JNumber(Num(10)),
                quantity |-> JNumber(Num(1)), isHeavyDuty |-> JBoolean(TRUE)])>>,
     <<JObject([name |-> JString(<<"a">>), wattage |-> JNumber(Num(10))])>>}

CalculationsSent ==
    {JObject([totalLoad |-> JNumber(Num(300)), peakSurge |-> JNumber(Num(900)),
              requiredKva |-> JNumber(Rat(1, 2)),
              recommendedInverter |-> JNumber(Num(1)),
              warnings |-> JArray(<<JString(<<"l", "o", "a", "d", " ", ">", " ", "8", "0", "%", " ", "&", " ", "r", "i", "s", "i", "n", "g">>)>>),
              recommendations |-> JArray(<<JString(<<"u", "s", "e", " ", "'", "p", "u", "r", "e", " ", "s", "i", "n", "e", "'">>), JString(<<>>)>>)]),
     JObject([totalLoad |-> JNumber(Num(-300))]),
     JObject([recommendedInverter |-> JNumber(Num(-1))]),
     JObject([warnings |-> JArray(<<JString(Repeat("w", 501))>>)]),
     JObject([recommendations |-> JArray(<<JNumber(Num(1))>>)])}

SizingsSent ==
    {JObject(<<>>), JString(<<>>), JArray(<<>>),
     JObject([totalWattage |-> JNumber(Num(300)),
              recommendedInverterSize |-> JNumber(Num(2))]),
     JObject([totalWattage |-> JNumber(Num(-1))]),
     JObject([recommendedInverterSize |-> JNumber(Num(-1))])}
    \cup {JObject([appliances |-> JArray(a)]) : a \in AppliancesSent}
    \cup {JObject([calculations |-> c]) : c \in CalculationsSent}
    \cup {JObject([appliances |-> JArray(<<Fridge, Television>>), calculations |-> c]) :
            c \in CalculationsSent}

\* the JSON values sent as the body of a request
PayloadsSent ==
    {JObject(BasePayload), JNull, JArray(<<>>), JString(<<>>)}
    \cup {Without(key) : key \in DOMAIN BasePayload}
    \cup {With("name", v) : v \in NamesSent}
    \cup {With("message", v) : v \in MessagesSent}
    \cup {With("contactMethod", v) : v \in ContactMethodsSent}
    \cup {With("email", v) : v \in EmailsSent}
    \cup {With("phone", v) : v \in PhonesSent}
    \cup {With("location", v) : v \in LocationsSent}
    \cup {With("inverterSizing", v) : v \in SizingsSent}
    \cup {JObject([BasePayload EXCEPT !.name = n, !.message = m,
                                      !.inverterSizing = JObject(<<>>)]) :
            n \in NamesSent, m \in MessagesSent}

\* the requests: the method, and a body that is not JSON or is the JSON text
\* of a value
Requests ==
    {[method |-> m, body |-> b] :
        m \in {"POST", "OPTIONS"},
        b \in {[json |-> FALSE, value |-> JUndefined]}
              \cup {[json |-> TRUE, value |-> v] : v \in PayloadsSent}}

\* RESEND_API_KEY is not set, is set to '', or is set to a key
Environments ==
    {[RESEND_API_KEY |-> k] :
        k \in {JUndefined, JString(<<>>), JString(<<"r", "e", "_", "1">>)}}

\* how the call to the email API ends
FetchOutcomes ==
    {[rejected |-> TRUE, ok |-> FALSE, body |-> "none"]}
    \cup {[rejected |-> FALSE, ok |-> ok, body |-> b] :
            ok \in BOOLEAN, b \in {"not JSON", "null", "message", "id"}}

\* serve (line 336) sends the Response of the handler and waits for the next
\* request
serve ==
    /\ invocation.pc = "responded"
    /\ invocation' = idle
    /\ UNCHANGED <<state, calculations, localStorage, printWindow, shareText, observed, equipment>>

Handle == \E req \in Requests : \E env \in Environments : handler(req, env)

Settle == \E res \in FetchOutcomes : fetchSettles(res)

NextHandler ==
    \/ Handle
    \/ Settle
    \/ serve

SpecHandler == InitFrom({absent}) /\ [][NextHandler]_vars

\* the handler is an async function resumed when the promise it awaits
\* settles: a call to the email API that was made is taken to settle, by an
\* answer or by a rejection
SpecHandlerFair == SpecHandler /\ WF_vars(Settle) /\ WF_vars(serve)

(***************************************************************************)
(* The custom equipment form: CustomEquipmentInput.tsx                      *)
(***************************************************************************)
MaxAdded == 2

MaxNow == 2

MaxQuantity == 2

\* a decimal literal: an optional sign, digits with at most one point
IsDecimalLiteral(str) ==
    LET body == IF str[1] \in {"+", "-"} THEN Tail(str) ELSE str
    IN  /\ \E i \in DOMAIN body : body[i] \in Digits
        /\ \A i \in DOMAIN body : body[i] \in Digits \cup {"."}
        /\ Cardinality({i \in DOMAIN body : body[i] = "."}) <= 1

\* Number(str) of a string: 0 for an empty or blank one, the value of a
\* decimal literal, NaN for anything else
Number(str) ==
    IF trim(str) = <<>> THEN Num(0)
    ELSE IF IsDecimalLiteral(trim(str)) THEN parseFloat(trim(str))
    ELSE NaN

\* the object handleAdd passes to onAdd (lines 36-41)
newEquipment ==
    [id |-> equipment.now, name |-> trim(equipment.name),
     wattage |-> Number(equipment.wattage), quantity |-> 1]

\* the parent's customEquipment after onAdd, onRemove and onUpdateQuantity
added(list, item) == Append(list, item)

removed(list, id) == SelectSeq(list, LAMBDA eq : eq.id # id)

updated(list, id, quantity) ==
    [i \in DOMAIN list |->
        IF list[i].id = id THEN [list[i] EXCEPT !.quantity = quantity] ELSE list[i]]

\* onClick of "Add Custom" (line 56), rendered while the form is closed
openForm ==
    /\ ~equipment.showForm
    /\ equipment' = [equipment EXCEPT !.showForm = TRUE]
    /\ UNCHANGED <<state, calculations, localStorage, printWindow, shareText, observed, invocation>>

\* onClick of "Cancel" (line 104)
cancelForm ==
    /\ equipment.showForm
    /\ equipment' = [equipment EXCEPT !.showForm = FALSE]
    /\ UNCHANGED <<state, calculations, localStorage, printWindow, shareText, observed, invocation>>

\* onChange of the name input (line 82)
setName(v) ==
    /\ equipment.showForm
    /\ equipment' = [equipment EXCEPT !.name = v]
    /\ UNCHANGED <<state, calculations, localStorage, printWindow, shareText, observed, invocation>>

\* onChange of the wattage input (line 93)
setWattage(v) ==
    /\ equipment.showForm
    /\ equipment' = [equipment EXCEPT !.wattage = v]
    /\ UNCHANGED <<state, calculations, localStorage, printWindow, shareText, observed, invocation>>

\* handleAdd (lines 33-46), on a click of "Add Equipment", which is disabled
\* while the trimmed name or the wattage is empty (line 101)
handleAdd ==
    /\ equipment.showForm
    /\ trim(equipment.name) # <<>>
    /\ equipment.wattage # <<>>
    /\ Len(equipment.onAdd) < MaxAdded
    /\ equipment' =
         IF \/ trim(equipment.name) = <<>>
            \/ equipment.wattage = <<>>
            \/ (~IsNaN(Number(equipment.wattage)) /\ Leq(Number(equipment.wattage), Num(0)))
         THEN equipment
         ELSE [equipment EXCEPT
                 !.name = <<>>, !.wattage = <<>>, !.showForm = FALSE,
                 !.onAdd = Append(@, newEquipment),
                 !.customEquipment = added(@, newEquipment)]
    /\ UNCHANGED <<state, calculations, localStorage, printWindow, shareText, observed, invocation>>

\* onClick of the - button of the i-th item (line 129)
decrement(i) ==
    /\ i \in DOMAIN equipment.customEquipment
    /\ LET eq == equipment.customEquipment[i]
           quantity == IF eq.quantity - 1 > 0 THEN eq.quantity - 1 ELSE 0
       IN  equipment' =
             [equipment EXCEPT
                !.onUpdateQuantity = [id |-> eq.id, quantity |-> quantity],
                !.customEquipment = updated(@, eq.id, quantity)]
    /\ UNCHANGED <<state, calculations, localStorage, printWindow, shareText, observed, invocation>>

\* onClick of the + button of the i-th item (line 138)
increment(i) ==
    /\ i \in DOMAIN equipment.customEquipment
    /\ equipment.customEquipment[i].quantity < MaxQuantity
    /\ LET eq == equipment.customEquipment[i]
       IN  equipment' =
             [equipment EXCEPT
                !.onUpdateQuantity = [id |-> eq.id, quantity |-> eq.quantity + 1],
                !.customEquipment = updated(@, eq.id, eq.quantity + 1)]
    /\ UNCHANGED <<state, calculations, localStorage, printWindow, shareText, observed, invocation>>

\* onClick of the trash button of the i-th item (line 148)
remove(i) ==
    /\ i \in DOMAIN equipment.customEquipment
    /\ equipment' =
         [equipment EXCEPT !.customEquipment = removed(@, equipment.customEquipment[i].id)]
    /\ UNCHANGED <<state, calculations, localStorage, printWindow, shareText, observed, invocation>>

\* a millisecond passes: Date.now() goes up by one
tick ==
    /\ equipment.now < MaxNow
    /\ equipment' = [equipment EXCEPT !.now = @ + 1]
    /\ UNCHANGED <<state, calculations, localStorage, printWindow, shareText, observed, invocation>>

\* what is typed into the name input and into the number input for the
\* wattage, whose value is '' or a valid number
NamesTyped == {<<>>, <<" ">>, <<" ", "P", "u", "m", "p", " ">>}

WattagesTyped == {<<>>, <<"0">>, <<"-", "5">>, <<"1", "5", "0", "0">>}

TypeName == \E v \in NamesTyped : setName(v)

TypeWattage == \E v \in WattagesTyped : setWattage(v)

Quantity == \E i \in 1..MaxAdded : decrement(i) \/ increment(i) \/ remove(i)

NextEquipment ==
    \/ openForm
    \/ cancelForm
    \/ TypeName
    \/ TypeWattage
    \/ handleAdd
    \/ Quantity
    \/ tick

SpecEquipment == InitFrom({absent}) /\ [][NextEquipment]_vars

(***************************************************************************)
(* The page on a storage that fails, with a share API and a clipboard that  *)
(* fail, and an observer that keeps what was found and loaded on opening    *)
(***************************************************************************)
\* what the page is opened on: a storage every access to which throws, a text
\* that is not JSON, no entry, a record saved with the results shown
StoredFailing ==
    {blocked, notJson, absent,
     Json([resetState EXCEPT !.solarLoad = <<"2", "0", "0", "0">>,
                             !.backupLoad = <<"1", "5", "0", "0">>,
                             !.showResults = TRUE])}

InitFailures ==
    \E stored \in StoredFailing :
        /\ state = initialState(loadPersistedState(stored))
        /\ calculations = useMemoCalculations(state)
        /\ localStorage = saveState(state, stored)
        /\ printWindow = null
        /\ shareText = null
        /\ observed = [opened |-> stored, loaded |-> state]
        /\ invocation = idle
        /\ equipment = initialEquipment

NextFailures ==
    \/ EditObserved
    \/ handleCalculate
    \/ handleReset
    \/ Share
    \/ Reload

SpecFailures == InitFailures /\ [][NextFailures]_vars

(***************************************************************************)
(* Reset clicked on the page as it opens on a stored configuration          *)
(***************************************************************************)
StoredBeforeReset ==
    StoredOnOpen
    \cup {Json([resetState EXCEPT !.solarLoad = sl, !.backupLoad = bl,
                                  !.systemVoltage = sv, !.panelConnection = pc,
                                  !.showResults = sh]) :
            sl \in LoadsStored, bl \in LoadsStored,
            sv \in {<<"1", "2">>, <<"2", "4">>, <<"4", "8">>},
            pc \in ConnectionType, sh \in BOOLEAN}

NextReset == handleReset

SpecReset == InitFrom(StoredBeforeReset) /\ [][NextReset]_vars

(***************************************************************************)
(* Properties                                                               *)
(***************************************************************************)
NumericFields ==
    {"solarLoad", "backupLoad", "systemVoltage", "backupHours", "batteryVoltage",
     "batteryAh", "solarHours", "panelWattage", "panelVoltage"}

\* the number a field parses to
In(key) == parseFloat(state[key])

Positive(x) == ~IsNaN(x) /\ x.n > 0

\* a complete Configuration: every numeric field parses to a value > 0
Complete == \A key \in NumericFields : Positive(In(key))

HasResult == calculations # null

\* the standard tables as the specification states them
BreakerSet == {6, 10, 16, 20, 25, 32, 40, 50, 63, 80, 100, 125, 160}

\* <<cross-section, rated current>>
CableTable ==
    {<<Rat(3, 2), 15>>, <<Rat(5, 2), 21>>, <<Num(4), 28>>, <<Num(6), 36>>,
     <<Num(10), 50>>, <<Num(16), 68>>, <<Num(25), 89>>, <<Num(35), 110>>,
     <<Num(50), 133>>, <<Num(70), 171>>, <<Num(95), 207>>}

MaxLoadIn == MathMax(In("solarLoad"), In("backupLoad"))

Idc == Div(MaxLoadIn, In("systemVoltage"))

Iac == Div(MaxLoadIn, Num(230))

\* 1.25 x current
Margined(current) == Mul(current, Rat(5, 4))

\* <<rating, current it protects>> of the four breakers of the Result
Breakers ==
    {<<calculations.protection.dcMcbPanelToCC, Idc>>,
     <<calculations.protection.dcMcbCCToBattery, Idc>>,
     <<calculations.protection.dcBreakerBatteryToInverter, Idc>>,
     <<calculations.protection.acMcbInverterToLoad, Iac>>}

\* <<cross-section, current it carries>> of the four cables of the Result
Cables ==
    {<<calculations.protection.cablePanelToCC, Idc>>,
     <<calculations.protection.cableCCToBattery, Idc>>,
     <<calculations.protection.cableBatteryToInverter, Idc>>,
     <<calculations.protection.cableInverterToLoad, Iac>>}

BreakerSuffices(s, current) == Geq(Num(s), Margined(current))

CableSuffices(e, current) == Geq(Num(e[2]), Margined(current))

\* b is the smallest breaker of the table that is >= 1.25 x current
SmallestBreaker(b, current) ==
    \E s \in BreakerSet :
        /\ b = Num(s)
        /\ BreakerSuffices(s, current)
        /\ \A t \in BreakerSet : BreakerSuffices(t, current) => s <= t

\* c is the smallest cross-section of the table rated >= 1.25 x current
SmallestCable(c, current) ==
    \E e \in CableTable :
        /\ c = e[1]
        /\ CableSuffices(e, current)
        /\ \A f \in CableTable : CableSuffices(f, current) => Leq(e[1], f[1])

\* C1: whenever one of the nine numeric fields is missing, non-numeric, zero
\* or negative, the sizing computation yields no Result.
C1_IncompleteYieldsNoResult == ~Complete => calculations = null

\* C2: for every complete Configuration each of the four breakers and four
\* cables is the smallest member of its table rated >= 1.25 x its current.
C2_SmallestSufficient ==
    Complete =>
        /\ HasResult
        /\ \A b \in Breakers : SmallestBreaker(b[1], b[2])
        /\ \A c \in Cables : SmallestCable(c[1], c[2])

\* C2 (amended): each of the four breakers and four cables is the smallest
\* member of its table rated >= 1.25 x its current when the table has such a
\* member, and the largest member of the table when it has none.
C2_SmallestSufficientOrLargest ==
    Complete =>
        /\ HasResult
        /\ \A b \in Breakers :
              IF \E s \in BreakerSet : BreakerSuffices(s, b[2])
              THEN SmallestBreaker(b[1], b[2])
              ELSE \E s \in BreakerSet :
                      b[1] = Num(s) /\ \A t \in BreakerSet : t <= s
        /\ \A c \in Cables :
              IF \E e \in CableTable : CableSuffices(e, c[2])
              THEN SmallestCable(c[1], c[2])
              ELSE \E e \in CableTable :
                      c[1] = e[1] /\ \A f \in CableTable : Leq(f[1], e[1])

\* a complete Configuration whose DC cables are sized within the table and
\* above its smallest entry
C2_Witness ==
    /\ Complete
    /\ HasResult
    /\ calculations.protection.dcMcbPanelToCC = Num(100)
    /\ calculations.protection.cablePanelToCC = Num(35)
    /\ calculations.protection.acMcbInverterToLoad = Num(6)

\* C3: a margined current above the largest table entry gives the table
\* maximum (160 A, 95 mm2), and every breaker and cable is a table member.
C3_Saturates ==
    Complete =>
        /\ HasResult
        /\ \A b \in Breakers :
              /\ \E s \in BreakerSet : b[1] = Num(s)
              /\ Lt(Num(160), Margined(b[2])) => b[1] = Num(160)
        /\ \A c \in Cables :
              /\ \E e \in CableTable : c[1] = e[1]
              /\ Lt(Num(207), Margined(c[2])) => c[1] = Num(95)

\* a DC current of 200 A: margined 250 A, above 160 A and above 207 A
C3_Witness ==
    /\ Complete
    /\ HasResult
    /\ Lt(Num(207), Margined(Idc))
    /\ calculations.protection.dcBreakerBatteryToInverter = Num(160)
    /\ calculations.protection.cableBatteryToInverter = Num(95)

\* C4: when 1.25 x current equals a table entry, that entry is selected, not
\* the next one up.
C4_InclusiveBreakpoint ==
    Complete =>
        /\ HasResult
        /\ \A b \in Breakers : \A s \in BreakerSet :
              Eq(Margined(b[2]), Num(s)) => b[1] = Num(s)
        /\ \A c \in Cables : \A e \in CableTable :
              Eq(Margined(c[2]), Num(e[2])) => c[1] = e[1]

\* 40 A margins to exactly 50 A: the 50 A breaker and the 10 mm2 cable
C4_Witness ==
    /\ Complete
    /\ HasResult
    /\ Eq(Margined(Idc), Num(50))
    /\ calculations.protection.dcMcbCCToBattery = Num(50)
    /\ calculations.protection.cableCCToBattery = Num(10)

\* C5: batteryCount is an integer >= ceil(systemVoltage / batteryVoltage).
C5_AtLeastOneString ==
    Complete =>
        /\ HasResult
        /\ IsInteger(calculations.minBatteries)
        /\ Geq(calculations.minBatteries,
               MathCeil(Div(In("systemVoltage"), In("batteryVoltage"))))

\* a 12 V system on 24 V batteries: systemVoltage / batteryVoltage = 1/2
C5_Witness ==
    /\ Complete
    /\ HasResult
    /\ ~IsInteger(Div(In("systemVoltage"), In("batteryVoltage")))
    /\ Lt(Num(1), calculations.minBatteries)

DailyDemand ==
    Mul(Add(Mul(In("solarLoad"), In("solarHours")),
            Mul(In("backupLoad"), In("backupHours"))), Rat(6, 5))

\* the ideal production of n panels
Production(n) == Mul(Mul(In("panelWattage"), n), In("solarHours"))

\* C6: panelCount is the least positive integer whose production covers the
\* daily demand with its 20% overhead.
C6_LeastPanelCount ==
    Complete =>
        /\ HasResult
        /\ IsInteger(calculations.totalPanels)
        /\ calculations.totalPanels.n >= 1
        /\ Geq(Production(calculations.totalPanels), DailyDemand)
        /\ Lt(Production(Num(calculations.totalPanels.n - 1)), DailyDemand)

\* a demand that is exactly the production of the panels: no panel is added
C6_Witness ==
    /\ Complete
    /\ HasResult
    /\ calculations.totalPanels = Num(4)
    /\ Eq(Production(calculations.totalPanels), DailyDemand)

\* 1.25 x arrayWattage / systemVoltage, on the arrayWattage of the Result
MarginedArrayCurrent ==
    Margined(Div(calculations.panelArrayWattage, In("systemVoltage")))

\* C7: chargeControllerAmps is the multiple of 10 at or above
\* 1.25 x arrayWattage / systemVoltage and less than 10 above it.
C7_NextTenAmps ==
    Complete =>
        /\ HasResult
        /\ IsInteger(calculations.recommendedChargeController)
        /\ calculations.recommendedChargeController.n % 10 = 0
        /\ Geq(calculations.recommendedChargeController, MarginedArrayCurrent)
        /\ Lt(Add(calculations.recommendedChargeController,
                  Neg(MarginedArrayCurrent)), Num(10))

\* a margined array current that is itself a multiple of 10
C7_Witness ==
    /\ Complete
    /\ HasResult
    /\ Eq(calculations.recommendedChargeController, MarginedArrayCurrent)

\* the Configuration of the concrete scenario
Scenario ==
    /\ In("solarLoad") = Num(2000)
    /\ In("backupLoad") = Num(1500)
    /\ In("systemVoltage") = Num(24)
    /\ In("backupHours") = Num(4)
    /\ In("batteryVoltage") = Num(12)
    /\ In("batteryAh") = Num(200)
    /\ state.batteryConnection = "series"
    /\ In("solarHours") = Num(5)
    /\ In("panelWattage") = Num(450)
    /\ In("panelVoltage") = Num(40)
    /\ state.panelConnection = "series"

\* C9: the scenario yields 4 batteries (2 in series x 2 strings), a 400 Ah
\* bank, 9 panels, a 220 A charge controller and four standard breakers.
C9_Scenario ==
    Scenario =>
        /\ HasResult
        /\ calculations.minBatteries = Num(4)
        /\ calculations.batteryBankAh = Num(400)
        /\ Geq(Mul(calculations.batteryBankVoltage, calculations.batteryBankAh),
               Num(6000))
        /\ calculations.totalPanels = Num(9)
        /\ calculations.recommendedChargeController = Num(220)
        /\ \A b \in Breakers : \E s \in BreakerSet : b[1] = Num(s)

C9_Witness == Scenario /\ HasResult /\ calculations.panelArrayWattage = Num(4050)

\* the eleven input fields of the computation
InputFields == NumericFields \cup {"batteryConnection", "panelConnection"}

\* C8: two renderings with equal input field values show identical Results,
\* whatever edits, Calculate, Reset or reload lie between them and whatever
\* showResults and localStorage are.
C8_HistoryFree ==
    (observed # null /\ \A key \in InputFields : observed.state[key] = state[key])
        => observed.calculations = calculations

\* the same field values rendered a Result before and after a Calculate click
C8_Witness ==
    /\ observed # null
    /\ \A key \in InputFields : observed.state[key] = state[key]
    /\ observed.state.showResults # state.showResults
    /\ HasResult
    /\ state.panelConnection # "series"

\* line 1202: {showResults && calculations && (...)}
ResultsVisible == state.showResults /\ calculations # null

\* C10: the results panel is visible only if the current field values yield a
\* Result; showResults is set by a step only when a Result exists; and no
\* report is downloaded or shared by a step taken when no Result exists.
C10_ResultsGated ==
    /\ [](ResultsVisible => useMemoCalculations(state) # null)
    /\ [][/\ (~state.showResults /\ state'.showResults) => calculations # null
          /\ calculations = null => (printWindow' = null /\ shareText' = null)]_vars

\* showResults restored as true although the fields yield no Result: the
\* panel stays hidden
C10_Witness ==
    /\ state.showResults
    /\ calculations = null
    /\ ~ResultsVisible
    /\ state.backupLoad # <<>>

\* the backup energy E = backupLoad x backupHours
BackupEnergy == Mul(In("backupLoad"), In("backupHours"))

\* S = systemVoltage / batteryVoltage
SeriesFactor == Div(In("systemVoltage"), In("batteryVoltage"))

\* the energy of one string: batteryVoltage x batteryCapacity x S
StringEnergy == Mul(Mul(In("batteryVoltage"), In("batteryAh")), SeriesFactor)

\* the number of parallel strings P of the Result: bankCapacityAh / batteryCapacity
StringsOfResult == Div(calculations.batteryBankAh, In("batteryAh"))

\* C16: the number of parallel strings P is the least integer with
\* P x (batteryVoltage x batteryCapacity x S) >= backupLoad x backupHours (the
\* raw backup energy, not derated), batteryCount = ceil(S x P),
\* bankCapacityAh = batteryCapacity x P, bankVoltage = systemVoltage and the
\* bank energy systemVoltage x bankCapacityAh is never below the backup energy.
C16_RawBackupEnergy ==
    Complete =>
        /\ HasResult
        /\ IsInteger(StringsOfResult)
        /\ Geq(Mul(StringsOfResult, StringEnergy), BackupEnergy)
        /\ Lt(Mul(Add(StringsOfResult, Num(-1)), StringEnergy), BackupEnergy)
        /\ calculations.minBatteries = MathCeil(Mul(SeriesFactor, StringsOfResult))
        /\ calculations.batteryBankAh = Mul(In("batteryAh"), StringsOfResult)
        /\ calculations.batteryBankVoltage = In("systemVoltage")
        /\ Geq(Mul(In("systemVoltage"), calculations.batteryBankAh), BackupEnergy)

\* two strings whose energy is exactly the backup energy: a derating would
\* add a string
C16_Witness ==
    /\ Complete
    /\ HasResult
    /\ StringsOfResult = Num(2)
    /\ Eq(Mul(In("systemVoltage"), calculations.batteryBankAh), BackupEnergy)

\* panelVmp times the panels the topology puts in series for the array
\* voltage: panelCount for series, 1 for parallel, 2 for series-parallel
ArrayVoltageExact ==
    IF state.panelConnection = "series"
    THEN Mul(In("panelVoltage"), calculations.totalPanels)
    ELSE IF state.panelConnection = "parallel" THEN In("panelVoltage")
    ELSE Mul(In("panelVoltage"), Num(2))

\* C17: the reported arrayVoltage is exactly panelVmp x panelCount for
\* series, panelVmp for parallel and panelVmp x 2 for series-parallel, for
\* non-integer panelVmp as well.
C17_ArrayVoltageExact ==
    Complete => (HasResult /\ calculations.panelArrayVoltage = ArrayVoltageExact)

\* C18: arrayWattage = panelWattage x panelCount, dailyEnergyWh =
\* panelWattage x panelCount x solarHours (without the 20% overhead), and
\* panelCount, arrayWattage, dailyEnergyWh and chargeControllerAmps are the
\* same for the three panel topologies.
C18_ArrayCharacteristics ==
    Complete =>
        /\ HasResult
        /\ calculations.panelArrayWattage =
              Mul(In("panelWattage"), calculations.totalPanels)
        /\ calculations.dailyEnergyProduction = Production(calculations.totalPanels)
        /\ \A pc \in ConnectionType :
              LET other == useMemoCalculations([state EXCEPT !.panelConnection = pc])
              IN  /\ other # null
                  /\ other.totalPanels = calculations.totalPanels
                  /\ other.panelArrayWattage = calculations.panelArrayWattage
                  /\ other.dailyEnergyProduction = calculations.dailyEnergyProduction
                  /\ other.recommendedChargeController =
                        calculations.recommendedChargeController

\* C19: the three DC breakers are equal and the three DC cables are equal,
\* all looked up from I_dc = max(solarLoad, backupLoad) / systemVoltage; the
\* inverter-to-load breaker and cable are looked up from
\* I_ac = max(solarLoad, backupLoad) / 230; none depends on the panel count,
\* the array wattage or the battery data.
C19_OneDcCurrent ==
    HasResult =>
        /\ calculations.protection.dcMcbPanelToCC = nextMcbSize(Idc)
        /\ calculations.protection.dcMcbCCToBattery =
              calculations.protection.dcMcbPanelToCC
        /\ calculations.protection.dcBreakerBatteryToInverter =
              calculations.protection.dcMcbPanelToCC
        /\ calculations.protection.cablePanelToCC = cableSizeForCurrent(Idc)
        /\ calculations.protection.cableCCToBattery =
              calculations.protection.cablePanelToCC
        /\ calculations.protection.cableBatteryToInverter =
              calculations.protection.cablePanelToCC
        /\ calculations.protection.acMcbInverterToLoad = nextMcbSize(Iac)
        /\ calculations.protection.cableInverterToLoad = cableSizeForCurrent(Iac)

\* a Result whose DC and AC sizes differ, from an array of several panels
C19_Witness ==
    /\ HasResult
    /\ calculations.protection.dcMcbCCToBattery = Num(125)
    /\ calculations.protection.cableCCToBattery = Num(35)
    /\ calculations.protection.acMcbInverterToLoad = Num(16)
    /\ calculations.protection.cableInverterToLoad = Rat(3, 2)
    /\ Lt(Num(3), calculations.totalPanels)

\* k: the panels in series for the open-circuit voltage
SeriesCount ==
    IF state.panelConnection = "series" THEN calculations.totalPanels
    ELSE IF state.panelConnection = "series-parallel"
    THEN MathCeil(Div(calculations.totalPanels, Num(2)))
    ELSE Num(1)

\* Voc = panelVmp x 1.2 x k
Voc == Mul(Mul(In("panelVoltage"), Rat(6, 5)), SeriesCount)

\* C20: the surge-device voltage class is the multiple of 100 at or above
\* Voc = panelVmp x 1.2 x k and less than 100 above it; the isolator carries
\* the same class and the DC breaker rating; the earth conductor is 16.
C20_VoltageClass ==
    Complete =>
        /\ HasResult
        /\ IsInteger(calculations.protection.spdRating.volts)
        /\ calculations.protection.spdRating.volts.n % 100 = 0
        /\ Geq(calculations.protection.spdRating.volts, Voc)
        /\ Lt(Add(calculations.protection.spdRating.volts, Neg(Voc)), Num(100))
        /\ calculations.protection.isolatorSwitch.volts =
              calculations.protection.spdRating.volts
        /\ calculations.protection.isolatorSwitch.amps = nextMcbSize(Idc)
        /\ calculations.protection.isolatorSwitch.amps =
              calculations.protection.dcMcbPanelToCC
        /\ calculations.protection.earthWire = Num(16)

\* a series-parallel array of an odd number of panels, the half rounded up:
\* five panels of 40 V, Voc = 48 x 3 = 144 V, class 200 V
C20_Witness ==
    /\ Complete
    /\ HasResult
    /\ state.panelConnection = "series-parallel"
    /\ calculations.totalPanels = Num(5)
    /\ In("panelVoltage") = Num(40)
    /\ calculations.protection.spdRating.volts = Num(200)


\* the record the page was opened on is of the older schema: a loadSize and
\* neither of the two loads
OpenedOnLegacy ==
    /\ "loadSize" \in DOMAIN observed.stored
    /\ "solarLoad" \notin DOMAIN observed.stored
    /\ "backupLoad" \notin DOMAIN observed.stored

\* the record the page was opened on holds the two loads
OpenedOnSplit == {"solarLoad", "backupLoad"} \subseteq DOMAIN observed.stored

\* C15: a stored record with a legacy loadSize and without the two loads is
\* loaded with solarLoad = backupLoad = loadSize and without loadSize; a
\* record holding the two loads is loaded with them unchanged; the record in
\* storage never contains loadSize once the page has persisted its state.
C15_Migration ==
    /\ OpenedOnLegacy =>
          /\ observed.loaded.solarLoad = observed.stored.loadSize
          /\ observed.loaded.backupLoad = observed.stored.loadSize
          /\ "loadSize" \notin DOMAIN observed.loaded
    /\ OpenedOnSplit =>
          /\ observed.loaded.solarLoad = observed.stored.solarLoad
          /\ observed.loaded.backupLoad = observed.stored.backupLoad
    /\ "loadSize" \notin DOMAIN state
    /\ localStorage.kind = "json" => "loadSize" \notin DOMAIN localStorage.value

\* the page was opened on a legacy record with a load, the loads have been
\* edited since, and the record now in storage holds the split
C15_Witness ==
    /\ OpenedOnLegacy
    /\ observed.stored.loadSize = <<"2", "0", "0", "0">>
    /\ observed.loaded.backupLoad = <<"2", "0", "0", "0">>
    /\ localStorage.kind = "json"
    /\ localStorage.value.solarLoad = <<>>
    /\ localStorage.value.backupLoad = <<"1", "5", "0", "0">>


\* the notification function has a request in hand or has answered it
Handling == invocation.pc # "idle"

\* the function has answered the request
Responded == invocation.pc = "responded"

\* the JSON value of the body of the request
Payload == invocation.req.body.value

KeyConfigured ==
    invocation.env.RESEND_API_KEY.t = "string" /\ invocation.env.RESEND_API_KEY.s # <<>>

\* the email API was called for the request
EmailApiCalled == invocation.fetch # null

\* the value is absent (undefined or null) or meets the bound
AbsentOr(val, bound) == val.t \in {"undefined", "null"} \/ bound

\* an appliance with a wattage in 0..100000 and an integer quantity in 0..100
ApplianceInBounds(a) ==
    /\ a.t = "object"
    /\ Get(a, "wattage").t = "number"
    /\ Geq(Get(a, "wattage").num, Num(0))
    /\ Leq(Get(a, "wattage").num, Num(100000))
    /\ Get(a, "quantity").t = "number"
    /\ Get(a, "quantity").num.d = 1
    /\ Get(a, "quantity").num.n \in 0..100

\* a total that is absent or a non-negative number
TotalInBounds(val) == AbsentOr(val, val.t = "number" /\ Geq(val.num, Num(0)))

\* the sizing snapshot is absent, or has at most 100 appliances within their
\* bounds and non-negative totals
SizingInBounds(val) ==
    AbsentOr(val,
        /\ val.t = "object"
        /\ AbsentOr(Get(val, "appliances"),
              /\ Get(val, "appliances").t = "array"
              /\ Len(Get(val, "appliances").elems) <= 100
              /\ \A i \in DOMAIN Get(val, "appliances").elems :
                    ApplianceInBounds(Get(val, "appliances").elems[i]))
        /\ TotalInBounds(Get(val, "totalWattage"))
        /\ TotalInBounds(Get(val, "recommendedInverterSize"))
        /\ AbsentOr(Get(val, "calculations"),
              /\ Get(val, "calculations").t = "object"
              /\ \A k \in {"totalLoad", "peakSurge", "requiredKva",
                           "recommendedInverter"} :
                    TotalInBounds(Get(Get(val, "calculations"), k))))

\* a contact string that is absent or of at most limit characters
LengthInBounds(val, limit) == AbsentOr(val, val.t = "string" /\ Len(val.s) <= limit)

\* the constraints on a request: a JSON body that is an object with a name of
\* 1..100 characters after trim, a message of 10..2000 characters after trim,
\* a contactMethod of whatsapp or email, email / phone / location within 255 /
\* 30 / 200 characters, and a sizing snapshot within its bounds
SatisfiesConstraints ==
    /\ invocation.req.body.json
    /\ Payload.t = "object"
    /\ Get(Payload, "name").t = "string"
    /\ Len(trim(Get(Payload, "name").s)) \in 1..100
    /\ Get(Payload, "message").t = "string"
    /\ Len(trim(Get(Payload, "message").s)) \in 10..2000
    /\ Get(Payload, "contactMethod") \in {JString(whatsapp), JString(email)}
    /\ LengthInBounds(Get(Payload, "email"), 255)
    /\ LengthInBounds(Get(Payload, "phone"), 30)
    /\ LengthInBounds(Get(Payload, "location"), 200)
    /\ SizingInBounds(Get(Payload, "inverterSizing"))

\* C11: the email API is called only for a request whose body is valid JSON
\* and satisfies the constraints of the schema; every request violating one of
\* them is answered with status 400 and no call to the email API is made.
C11_InvalidAnswered400 ==
    Handling =>
        /\ EmailApiCalled => SatisfiesConstraints
        /\ (Responded /\ ~SatisfiesConstraints) =>
              (invocation.response.status = 400 /\ ~EmailApiCalled)

\* C11 (amended): the email API is called only for a non-OPTIONS request
\* handled with RESEND_API_KEY configured whose body is valid JSON and
\* satisfies the constraints; for a request violating one of them no call is
\* made, and the answer is status 400 when the request is not OPTIONS and the
\* key is configured, and status 500 when it is not OPTIONS and the key is not
\* configured.
C11_InvalidNeverRelayed ==
    Handling =>
        /\ EmailApiCalled =>
              /\ SatisfiesConstraints
              /\ invocation.req.method # "OPTIONS"
              /\ KeyConfigured
        /\ (Responded /\ ~SatisfiesConstraints) =>
              /\ ~EmailApiCalled
              /\ invocation.req.method # "OPTIONS" =>
                    invocation.response.status = IF KeyConfigured THEN 400 ELSE 500

\* a name of blanks only, sent with the key configured, is answered 400
C11_Witness ==
    /\ Responded
    /\ invocation.req.method = "POST"
    /\ KeyConfigured
    /\ invocation.req.body.json
    /\ Payload.t = "object"
    /\ Get(Payload, "name") = JString(<<" ", "\n">>)
    /\ invocation.response.status = 400
    /\ ~EmailApiCalled

\* the call to the email API failed: it was rejected, answered with a non-ok
\* status, or answered with a body that is not JSON
TransportFailed ==
    /\ invocation.res # null
    /\ invocation.res.rejected \/ ~invocation.res.ok \/ invocation.res.body = "not JSON"

\* C12: for a non-OPTIONS request, a missing RESEND_API_KEY gives status 500
\* with an error message and no call to the email API, whatever the payload; a
\* non-ok or unparsable answer of the email API gives status 500 with an error
\* message; status 200 is given only when the email API answered ok.
C12_FailuresReported ==
    (Responded /\ invocation.req.method # "OPTIONS") =>
        /\ ~KeyConfigured =>
              /\ invocation.response.status = 500
              /\ "error" \in DOMAIN invocation.response.body
              /\ ~EmailApiCalled
        /\ TransportFailed =>
              /\ invocation.response.status = 500
              /\ "error" \in DOMAIN invocation.response.body
        /\ invocation.response.status = 200 =>
              /\ invocation.res # null
              /\ ~invocation.res.rejected
              /\ invocation.res.ok

\* the email API rejected a valid message with a body that is not JSON
C12_Witness ==
    /\ Responded
    /\ EmailApiCalled
    /\ invocation.res # null
    /\ ~invocation.res.ok
    /\ invocation.res.body = "not JSON"
    /\ invocation.response.status = 500


\* the five entities
EntityOf ==
    "&" :> <<"&", "a", "m", "p", ";">> @@ "<" :> <<"&", "l", "t", ";">> @@
    ">" :> <<"&", "g", "t", ";">> @@ "\"" :> <<"&", "q", "u", "o", "t", ";">> @@
    "'" :> <<"&", "#", "0", "3", "9", ";">>

\* the string with each of & < > " ' replaced by its entity
RECURSIVE Entities(_)
Entities(str) ==
    IF Len(str) = 0 THEN <<>>
    ELSE IF Len(str) = 1
    THEN (IF str[1] \in DOMAIN EntityOf THEN EntityOf[str[1]] ELSE str)
    ELSE Entities(SubSeq(str, 1, Len(str) \div 2))
         \o Entities(SubSeq(str, (Len(str) \div 2) + 1, Len(str)))

\* no raw < > " ' in the text, and every & begins one of the five entities
WellEscaped(text) ==
    \A i \in DOMAIN text :
        /\ text[i] \notin {"<", ">", "\"", "'"}
        /\ text[i] = "&" =>
              \E c \in DOMAIN EntityOf :
                  /\ i + Len(EntityOf[c]) - 1 <= Len(text)
                  /\ SubSeq(text, i, i + Len(EntityOf[c]) - 1) = EntityOf[c]

\* <<the string the payload carries, what the email shows for it>> for one
\* of the contact fields email, phone and location
ContactText(key) ==
    IF Get(Payload, key).t = "string" /\ Get(Payload, key).s # <<>>
    THEN {<<Get(Payload, key).s, invocation.fetch.html[key].text>>}
    ELSE {}

\* the sizing snapshot of the payload and the report built from it
Snapshot == Get(Payload, "inverterSizing")

Report == invocation.fetch.html.sizing

\* the array under key of an object, empty when the key is absent
ArrayOf(val, key) ==
    IF Get(val, key).t = "array" THEN Get(val, key).elems ELSE <<>>

SnapshotCalculations ==
    IF Get(Snapshot, "calculations").t = "object" THEN Get(Snapshot, "calculations")
    ELSE JObject(<<>>)

\* <<user-supplied string, text placed in the report>>
ReportTexts ==
    IF Snapshot.t # "object" THEN {}
    ELSE {<<trim(Get(Payload, "name").s), Report.contactName>>}
         \cup {<<Get(ArrayOf(Snapshot, "appliances")[i], "name").s,
                 Report.applianceRows[i].name>> :
                 i \in DOMAIN ArrayOf(Snapshot, "appliances")}
         \cup {<<ArrayOf(SnapshotCalculations, "warnings")[i].s, Report.warnings[i]>> :
                 i \in DOMAIN ArrayOf(SnapshotCalculations, "warnings")}
         \cup {<<ArrayOf(SnapshotCalculations, "recommendations")[i].s,
                 Report.recommendations[i]>> :
                 i \in DOMAIN ArrayOf(SnapshotCalculations, "recommendations")}

\* <<user-supplied string, text placed in the email>> for every user-supplied
\* string of the payload that the email shows
UserTexts ==
    {<<trim(Get(Payload, "name").s), invocation.fetch.html.name>>,
     <<trim(Get(Payload, "name").s), invocation.fetch.subject.name>>,
     <<trim(Get(Payload, "message").s), invocation.fetch.html.message>>}
    \cup ContactText("email") \cup ContactText("phone") \cup ContactText("location")
    \cup ReportTexts

\* C13: every user-supplied string placed in the email (name, email, phone,
\* location, message, appliance names, warnings, recommendations) is placed as
\* its escapeHtml output, which is the string with each & < > " ' replaced by
\* its entity: it has no raw < > " ' and no & other than one beginning
\* &amp; &lt; &gt; &quot; &#039;.
C13_Escaped ==
    EmailApiCalled =>
        /\ \A p \in UserTexts : p[2] = Entities(p[1]) /\ WellEscaped(p[2])
        /\ Snapshot.t = "object" =>
              /\ Len(Report.applianceRows) = Len(ArrayOf(Snapshot, "appliances"))
              /\ Len(Report.warnings) = Len(ArrayOf(SnapshotCalculations, "warnings"))
              /\ Len(Report.recommendations) =
                    Len(ArrayOf(SnapshotCalculations, "recommendations"))

\* an email with an appliance name, a warning and a recommendation that hold
\* characters to escape
C13_Witness ==
    /\ EmailApiCalled
    /\ Snapshot.t = "object"
    /\ \E i \in DOMAIN Report.applianceRows :
          /\ Get(ArrayOf(Snapshot, "appliances")[i], "name").s # Report.applianceRows[i].name
          /\ "&" \in {Report.applianceRows[i].name[j] :
                        j \in DOMAIN Report.applianceRows[i].name}
    /\ Len(Report.warnings) > 0
    /\ ArrayOf(SnapshotCalculations, "warnings")[1].s # Report.warnings[1]
    /\ Len(Report.recommendations) > 0

\* the payload with its sizing snapshot replaced by null
PayloadWithNullSizing ==
    JObject([k \in DOMAIN Payload.obj \cup {"inverterSizing"} |->
                IF k = "inverterSizing" THEN JNull ELSE Payload.obj[k]])

\* a request whose contact fields are valid and whose inverterSizing is null
\* or omitted, arriving with the key configured
ContactWithoutSizing ==
    /\ Handling
    /\ invocation.req.method = "POST"
    /\ KeyConfigured
    /\ invocation.req.body.json
    /\ Payload.t = "object"
    /\ Snapshot.t \in {"null", "undefined"}
    /\ ContactNotificationSchema(PayloadWithNullSizing)

\* C14: a payload whose contact fields are valid and whose inverterSizing is
\* null or omitted is not answered with status 400 and is relayed by email
\* with the 'no inverter sizing data' notice in place of the report.
C14_SizingOptional ==
    ContactWithoutSizing =>
        /\ EmailApiCalled
        /\ invocation.fetch.html.sizing = noSizingNotice
        /\ Responded => invocation.response.status # 400


\* C21: the Result displayed, downloaded or shared is the sizing computation
\* applied to the current field values, in every state reached by edits,
\* Calculate, Reset and reload.
C21_NoStaleResult ==
    /\ calculations = useMemoCalculations(state)
    /\ printWindow # null =>
          /\ printWindow.results = useMemoCalculations(state)
          /\ \A k \in calculationsDeps : printWindow.config[k] = state[k]
    /\ shareText # null =>
          /\ shareText.text.results.totalPanels = useMemoCalculations(state).totalPanels
          /\ shareText.text.results.minBatteries = useMemoCalculations(state).minBatteries
          /\ shareText.text.results.dailyEnergyProduction =
                useMemoCalculations(state).dailyEnergyProduction
          /\ shareText.text.results.recommendedChargeController =
                useMemoCalculations(state).recommendedChargeController
          /\ shareText.text.results.acMcbInverterToLoad =
                useMemoCalculations(state).protection.acMcbInverterToLoad

\* a report downloaded while the results are shown, with the sun hours, the
\* panel voltage and the topology edited away from their defaults
C21_Witness ==
    /\ printWindow # null
    /\ state.showResults
    /\ state.panelConnection = "series-parallel"
    /\ state.panelVoltage = <<"3", "7", ".", "5">>
    /\ printWindow.results.panelArrayVoltage = Num(75)

\* C23: once the persist effect has run the stored record holds the current
\* value of every field, and a reload restores every field, a field cleared
\* to the empty string included, and showResults.
C23_RoundTrip ==
    localStorage.kind = "json" =>
        /\ localStorage.value = state
        /\ initialState(loadPersistedState(localStorage)) = state

\* C24: two complete Configurations that differ in batteryTopology only
\* yield identical Results.
C24_BatteryTopologyIgnored ==
    Complete =>
        /\ HasResult
        /\ \A bc \in ConnectionType :
              useMemoCalculations([state EXCEPT !.batteryConnection = bc]) = calculations

\* a complete Configuration with the batteries set to parallel
C24_Witness ==
    /\ Complete
    /\ HasResult
    /\ state.batteryConnection = "parallel"
    /\ calculations.minBatteries = Num(4)
    /\ calculations.batteryBankAh = Num(400)

\* C26: a Reset click leaves every field at its default, showResults false
\* and no record in storage.
C26_ResetClears == [][state' = resetState /\ localStorage' = absent]_vars

\* C27: showResults becomes true only by a step taken while a Result exists
\* that changes no field, becomes false only by a step that resets every
\* field, and is left alone by an edit; so results hidden because the
\* Configuration became incomplete are visible again once it is complete.
C27_ShowResultsFrame ==
    /\ []((state.showResults /\ Complete) => ResultsVisible)
    /\ [][/\ (~state.showResults /\ state'.showResults) =>
                 (calculations # null /\ \A k \in InputFields : state'[k] = state[k])
          /\ (state.showResults /\ ~state'.showResults) => state' = resetState
          /\ ((\E k \in InputFields : state'[k] # state[k]) /\ state' # resetState) =>
                 state'.showResults = state.showResults]_vars

\* the results were shown, then the solar load was cleared: the panel is
\* hidden while showResults stays true
C27_Witness ==
    /\ state.showResults
    /\ calculations = null
    /\ state.solarLoad = <<>>
    /\ state.backupLoad = <<"1", "5", "0", "0">>
    /\ state.panelConnection = "parallel"


\* C25: the voltage class of the surge device and of the isolator is at least
\* the arrayVoltage reported in the same Result, for every complete
\* Configuration and every panelTopology.
C25_ClassCoversArrayVoltage ==
    Complete =>
        /\ HasResult
        /\ Geq(calculations.protection.spdRating.volts, calculations.panelArrayVoltage)
        /\ Geq(calculations.protection.isolatorSwitch.volts, calculations.panelArrayVoltage)

\* the DC and the AC current of the field values st
IdcOf(st) ==
    Div(MathMax(parseFloat(st.solarLoad), parseFloat(st.backupLoad)),
        parseFloat(st.systemVoltage))

IacOf(st) ==
    Div(MathMax(parseFloat(st.solarLoad), parseFloat(st.backupLoad)), Num(230))

\* the breakers and the cables of a Result
ProtectionRatings ==
    {"dcMcbPanelToCC", "dcMcbCCToBattery", "dcBreakerBatteryToInverter",
     "acMcbInverterToLoad", "cablePanelToCC", "cableCCToBattery",
     "cableBatteryToInverter", "cableInverterToLoad"}

\* the fields now differ from the observed ones by raised loads and a lowered
\* system voltage at most
RaisedSinceObserved ==
    /\ Leq(parseFloat(observed.state.solarLoad), In("solarLoad"))
    /\ Leq(parseFloat(observed.state.backupLoad), In("backupLoad"))
    /\ Geq(parseFloat(observed.state.systemVoltage), In("systemVoltage"))
    /\ \A key \in InputFields \ {"solarLoad", "backupLoad", "systemVoltage"} :
          observed.state[key] = state[key]

\* C30: for positive currents a <= b both lookups give nextMcbSize(a) <=
\* nextMcbSize(b) and cableSizeForCurrent(a) <= cableSizeForCurrent(b); so a
\* Result after raising a load or lowering systemVoltage, all else equal, has
\* no breaker and no cable smaller than before.
C30_Monotone ==
    (observed # null /\ observed.calculations # null /\ calculations # null) =>
        /\ \A a \in {IdcOf(observed.state), IacOf(observed.state)} :
              \A b \in {Idc, Iac} :
                (Lt(Num(0), a) /\ Leq(a, b)) =>
                    /\ Leq(nextMcbSize(a), nextMcbSize(b))
                    /\ Leq(cableSizeForCurrent(a), cableSizeForCurrent(b))
        /\ RaisedSinceObserved =>
              \A key \in ProtectionRatings :
                Leq(observed.calculations.protection[key], calculations.protection[key])

\* the loads were raised and the voltage lowered from an observed Result:
\* the DC side went from mid-table to beyond the largest breaker and cable,
\* the AC side one size up
C30_Witness ==
    /\ observed # null
    /\ observed.calculations # null
    /\ calculations # null
    /\ RaisedSinceObserved
    /\ observed.state.systemVoltage = <<"4", "8">>
    /\ state.systemVoltage = <<"1", "2">>
    /\ observed.calculations.protection.dcMcbPanelToCC = Num(63)
    /\ calculations.protection.dcMcbPanelToCC = Num(160)
    /\ calculations.protection.cablePanelToCC = Num(95)
    /\ Lt(observed.calculations.protection.acMcbInverterToLoad,
          calculations.protection.acMcbInverterToLoad)

\* C22: a storage that cannot be read or holds no JSON makes the page start
\* from its defaults; on a storage that cannot be written, and whatever the
\* share API and the clipboard do, the Result stays the computation on the
\* current fields and a complete Configuration has its Result; a share
\* attempt changes neither the form state nor the Result nor the storage.
C22_FailuresContained ==
    /\ [](/\ observed.opened \in {blocked, notJson} => observed.loaded = resetState
          /\ calculations = useMemoCalculations(state)
          /\ Complete => HasResult)
    /\ [][/\ shareText' # null =>
               (state' = state /\ calculations' = calculations /\ localStorage' = localStorage)
          /\ localStorage = blocked => localStorage' = blocked]_vars

\* on a storage that throws, a Configuration was completed, its results
\* shown, and a share attempt ended with the clipboard failing
C22_Witness ==
    /\ observed.opened = blocked
    /\ localStorage = blocked
    /\ Complete
    /\ ResultsVisible
    /\ shareText # null
    /\ shareText.toast = "error"

Added == equipment.onAdd

\* C29: onAdd is called only with a non-empty trimmed name, a wattage above 0
\* and quantity 1; a successful Add clears both fields and closes the form;
\* the - button never asks for a quantity below 0; every item added has an
\* id that no item added before it has.
C29_CustomEquipment ==
    /\ [](\A i \in DOMAIN Added :
            /\ Added[i].name # <<>>
            /\ Added[i].name = trim(Added[i].name)
            /\ Lt(Num(0), Added[i].wattage)
            /\ Added[i].quantity = 1)
    /\ [](equipment.onUpdateQuantity # null => equipment.onUpdateQuantity.quantity >= 0)
    /\ [](\A i, j \in DOMAIN Added : i < j => Added[i].id # Added[j].id)
    /\ [][Len(equipment.onAdd') > Len(equipment.onAdd) =>
            /\ equipment'.name = <<>>
            /\ equipment'.wattage = <<>>
            /\ ~equipment'.showForm]_vars

\* C29 without its last part: what onAdd is called with, what a successful
\* Add does to the form, what the - button asks for
C29_AddAndQuantity ==
    /\ [](\A i \in DOMAIN Added :
            /\ Added[i].name # <<>>
            /\ Added[i].name = trim(Added[i].name)
            /\ Lt(Num(0), Added[i].wattage)
            /\ Added[i].quantity = 1)
    /\ [](equipment.onUpdateQuantity # null => equipment.onUpdateQuantity.quantity >= 0)
    /\ [][Len(equipment.onAdd') > Len(equipment.onAdd) =>
            /\ equipment'.name = <<>>
            /\ equipment'.wattage = <<>>
            /\ ~equipment'.showForm]_vars

====
